---- MODULE Spec2Model ----
(***************************************************************************)
(* Invoice generator: the client-side PDF layout engine generateInvoice    *)
(* (rich variant, with status badge and payment-information block) and    *)
(* the record it renders.                                                  *)
(*                                                                         *)
(* Conventions of the model                                                *)
(*   - page coordinates are integers in hundredths of a PDF point          *)
(*     (U == 100), so that 595.28 x 841.89 is exact;                       *)
(*   - JS numbers that carry money are integers in 1/10000 of a currency   *)
(*     unit (Money == 10000), so that subtotal * 0.05 is exact for         *)
(*     whole-cent prices; toFixed(2) rounds such a value to cents;         *)
(*   - a JS string that the code splits or re-cases is a sequence of       *)
(*     one-character strings; a template literal is the tuple of its       *)
(*     parts;                                                              *)
(*   - an optional field is <<>> (undefined) or <<v>>.                     *)
(***************************************************************************)
EXTENDS Integers, Sequences, FiniteSets, TLC

\* ------------------------------------------------------------------ bounds
MaxItems == 3
MaxLines == 3
MaxEdits == 1
MaxTicks == 1
MaxCalls == 2

\* --------------------------------------------------------------- constants
U == 100
Money == 10000

pageWidth == 59528
pageHeight == 84189
titleFontSize == 24
headerFontSize == 12
normalFontSize == 10
smallFontSize == 8
footerY == 50 * U
columnWidths == <<280 * U, 70 * U, 80 * U, 90 * U>>

NL == "\n"

\* optional values
Undefined == <<>>
Some(v) == <<v>>
IsDefined(o) == o # <<>>
Val(o) == o[1]

\* rgb(r, g, b), components in percent
rgb(r, g, b) == <<r, g, b>>

\* ------------------------------------------------------------- primitives
\* page.drawText(text, {x, y, size, font, color}) called at source line `at`
DrawText(at, text, x, y, size, font, color) ==
    [kind |-> "text", at |-> at, text |-> text, x |-> x, y |-> y,
     size |-> size, font |-> font, color |-> color]

\* page.drawRectangle({x, y, width, height, color, borderColor?, borderWidth?})
DrawRectangle(at, x, y, w, h, color, border) ==
    [kind |-> "rect", at |-> at, x |-> x, y |-> y, width |-> w, height |-> h,
     color |-> color, border |-> border]

\* page.drawLine({start, end, thickness, color})
DrawLine(at, x1, y1, x2, y2, thickness, color) ==
    [kind |-> "line", at |-> at, x |-> x1, y |-> y1, x2 |-> x2, y2 |-> y2,
     thickness |-> thickness, color |-> color]

NoBorder == Undefined
Border(color, w) == Some([borderColor |-> color, borderWidth |-> w])

\* ---------------------------------------------------------------- helpers
\* String.prototype.split("\n") on a sequence of characters
RECURSIVE SplitFrom(_, _, _)
SplitFrom(s, i, cur) ==
    IF i > Len(s) THEN <<cur>>
    ELSE IF s[i] = NL THEN <<cur>> \o SplitFrom(s, i + 1, <<>>)
    ELSE SplitFrom(s, i + 1, Append(cur, s[i]))

\* variant: empty lines are dropped
splitNonEmpty(s) == SelectSeq(SplitFrom(s, 1, <<>>), LAMBDA line : line # <<>>)

split(s) == SplitFrom(s, 1, <<>>)

LowerAlphabet == <<"a","b","c","d","e","f","g","h","i","j","k","l","m",
                   "n","o","p","q","r","s","t","u","v","w","x","y","z">>
UpperAlphabet == <<"A","B","C","D","E","F","G","H","I","J","K","L","M",
                   "N","O","P","Q","R","S","T","U","V","W","X","Y","Z">>

UpperChar(c) ==
    IF \E k \in 1..26 : LowerAlphabet[k] = c
    THEN UpperAlphabet[CHOOSE k \in 1..26 : LowerAlphabet[k] = c]
    ELSE c

\* String.prototype.toUpperCase()
toUpperCase(s) == [i \in 1..Len(s) |-> UpperChar(s[i])]

\* the parts of a drawn text: a string, or a string kept as its characters
Str(s) == [str |-> s]
Chars(cs) == [chars |-> cs]

\* Number.prototype.toFixed(2): the decimal numeral of the value rounded to
\* cents, identified by its number of cents.  At an exact half cent the
\* result of the real call depends on the binary representation of the
\* number; the amounts of this model never fall on a half cent.
toFixed2(v) == [cents |-> (v + 50) \div 100]

\* Number.prototype.toString() of an integer
toString(n) == [int |-> n]

\* lineItems.reduce((sum, item) => sum + item.quantity * item.unitPrice, 0)
RECURSIVE ReduceFrom(_, _, _)
ReduceFrom(items, i, sum) ==
    IF i > Len(items) THEN sum
    ELSE ReduceFrom(items, i + 1, sum + items[i].quantity * items[i].unitPrice)

reduceTotal(items) == ReduceFrom(items, 1, 0)

\* ------------------------------------------------------------------ dates
monthNames == <<"January", "February", "March", "April", "May", "June",
                "July", "August", "September", "October", "November", "December">>

IsLeap(y) == (y % 4 = 0 /\ y % 100 # 0) \/ y % 400 = 0

DaysInMonth(y, m) ==
    IF m = 1 THEN (IF IsLeap(y) THEN 29 ELSE 28)
    ELSE IF m \in {3, 5, 8, 10} THEN 30 ELSE 31

\* a local calendar date: getFullYear(), getMonth() (0-11), getDate()
NextDay(d) ==
    IF d.date < DaysInMonth(d.year, d.month) THEN [d EXCEPT !.date = d.date + 1]
    ELSE IF d.month < 11 THEN [d EXCEPT !.month = d.month + 1, !.date = 1]
    ELSE [year |-> d.year + 1, month |-> 0, date |-> 1]

PrevDay(d) ==
    IF d.date > 1 THEN [d EXCEPT !.date = d.date - 1]
    ELSE IF d.month > 0
         THEN [d EXCEPT !.month = d.month - 1, !.date = DaysInMonth(d.year, d.month - 1)]
    ELSE [year |-> d.year - 1, month |-> 11, date |-> 31]

\* new Date(dateString) read through the local getters getFullYear(),
\* getMonth(), getDate().  A date string is [year, month (1-12), day, form,
\* hour]: form "date" is a date-only string (parsed as UTC midnight), "utc" a
\* timestamp ending in Z at that UTC hour, "local" a timestamp without zone
\* (parsed as local time).  tz is the process's offset from UTC in hours.
LocalFields(dateString, tz) ==
    LET written == [year |-> dateString.year, month |-> dateString.month - 1,
                    date |-> dateString.day]
        h == (IF dateString.form = "date" THEN 0 ELSE dateString.hour) + tz
    IN IF dateString.form = "local" THEN written
       ELSE IF h < 0 THEN PrevDay(written)
       ELSE IF h >= 24 THEN NextDay(written)
       ELSE written

formatDateFields(d) ==
    <<Str(monthNames[d.month + 1]), Str(" "), toString(d.date), Str(", "), toString(d.year)>>

formatDate(dateString, tz) == formatDateFields(LocalFields(dateString, tz))

\* ------------------------------------------------- generateInvoice (rich)
tableTop == pageHeight - 280 * U
tableLeft == 50 * U
tableRight == pageWidth - 50 * U
taxRatePercent == 5

Black == rgb(0, 0, 0)
White == rgb(100, 100, 100)
Dark == rgb(20, 20, 20)
Grey == rgb(40, 40, 40)
LightGrey == rgb(80, 80, 80)
BandGrey == rgb(97, 97, 97)
PaidGreen == rgb(20, 70, 20)
UnpaidRed == rgb(80, 20, 20)

Unpaid == <<"U", "N", "P", "A", "I", "D">>
Paid == <<"P", "A", "I", "D">>

\* lines 229-245: header background, then the title
HeaderBand ==
    << DrawRectangle(230, 0, pageHeight - 80 * U, pageWidth, 80 * U, Dark, NoBorder),
       DrawText(239, <<Str("INVOICE")>>, 50 * U, pageHeight - 50 * U, titleFontSize, "HelveticaBold", White) >>

\* variant: the line offset counts from one instead of zero
AddressLinesFromOne(at, lines, baseY) ==
    [index \in 1..Len(lines) |->
        DrawText(at, <<Chars(lines[index])>>, 50 * U, baseY - index * 15 * U,
                 normalFontSize, "Helvetica", Black)]

\* lines 255-264 and 362-371: lines.forEach((line, index) => drawText(line, ...))
AddressLines(at, lines, baseY) ==
    [index \in 1..Len(lines) |->
        DrawText(at, <<Chars(lines[index])>>, 50 * U, baseY - (index - 1) * 15 * U,
                 normalFontSize, "Helvetica", Black)]

\* lines 247-280
CompanyBlock(data) ==
    LET companyAddressLines == split(data.companyAddress)
    IN << DrawText(247, <<Str(data.companyName)>>, 50 * U, pageHeight - 90 * U,
                   headerFontSize, "HelveticaBold", Black) >>
       \o AddressLines(257, companyAddressLines, pageHeight - 110 * U)
       \o << DrawText(266, <<Str("Email: "), Str(data.companyEmail)>>, 50 * U,
                      pageHeight - 110 * U - Len(companyAddressLines) * 15 * U,
                      normalFontSize, "Helvetica", Black),
             DrawText(274, <<Str("Phone: "), Str(data.companyPhone)>>, 50 * U,
                      pageHeight - 125 * U - Len(companyAddressLines) * 15 * U,
                      normalFontSize, "Helvetica", Black) >>

\* variant: the status is used as written, without upper-casing
StatusLabelAsWritten(data) ==
    IF IsDefined(data.status) /\ Val(data.status) # <<>> THEN Val(data.status) ELSE Unpaid

\* line 308: data.status?.toUpperCase() || 'UNPAID'
StatusLabel(data) ==
    LET upper == IF IsDefined(data.status) THEN toUpperCase(Val(data.status)) ELSE <<>>
    IN IF upper = <<>> THEN Unpaid ELSE upper

\* line 309
StatusColor(status) == IF status = Paid THEN PaidGreen ELSE UnpaidRed

\* variant: the status text is drawn first and the badge rectangle over it
MetaBlockLabelFirst(data, tz) ==
    LET status == StatusLabel(data)
        statusColor == StatusColor(status)
    IN << DrawText(282, <<Str("Invoice #: "), Str(data.invoiceNumber)>>, pageWidth - 200 * U,
                   pageHeight - 90 * U, normalFontSize, "Helvetica", Black),
          DrawText(291, <<Str("Date: ")>> \o formatDate(data.invoiceDate, tz), pageWidth - 200 * U,
                   pageHeight - 105 * U, normalFontSize, "Helvetica", Black),
          DrawText(299, <<Str("Due Date: ")>> \o formatDate(data.dueDate, tz), pageWidth - 200 * U,
                   pageHeight - 120 * U, normalFontSize, "Helvetica", Black),
          DrawText(311, <<Str("Status:")>>, pageWidth - 200 * U, pageHeight - 135 * U,
                   normalFontSize, "Helvetica", Black),
          DrawText(331, <<Chars(status)>>, pageWidth - 145 * U, pageHeight - 135 * U,
                   normalFontSize, "HelveticaBold", White),
          DrawRectangle(320, pageWidth - 150 * U, pageHeight - 145 * U, 70 * U, 18 * U,
                        statusColor, Border(LightGrey, 1)) >>

\* lines 282-337
MetaBlock(data, tz) ==
    LET status == StatusLabel(data)
        statusColor == StatusColor(status)
    IN << DrawText(282, <<Str("Invoice #: "), Str(data.invoiceNumber)>>, pageWidth - 200 * U,
                   pageHeight - 90 * U, normalFontSize, "Helvetica", Black),
          DrawText(291, <<Str("Date: ")>> \o formatDate(data.invoiceDate, tz), pageWidth - 200 * U,
                   pageHeight - 105 * U, normalFontSize, "Helvetica", Black),
          DrawText(299, <<Str("Due Date: ")>> \o formatDate(data.dueDate, tz), pageWidth - 200 * U,
                   pageHeight - 120 * U, normalFontSize, "Helvetica", Black),
          DrawText(311, <<Str("Status:")>>, pageWidth - 200 * U, pageHeight - 135 * U,
                   normalFontSize, "Helvetica", Black),
          DrawRectangle(320, pageWidth - 150 * U, pageHeight - 145 * U, 70 * U, 18 * U,
                        statusColor, Border(LightGrey, 1)),
          DrawText(331, <<Chars(status)>>, pageWidth - 145 * U, pageHeight - 135 * U,
                   normalFontSize, "HelveticaBold", White) >>

\* lines 339-344
HeaderDivider ==
    << DrawLine(339, 50 * U, pageHeight - 150 * U, pageWidth - 50 * U, pageHeight - 150 * U,
                2, LightGrey) >>

\* lines 346-379
ClientBlock(data) ==
    LET clientAddressLines == split(data.clientAddress)
    IN << DrawText(346, <<Str("BILL TO:")>>, 50 * U, pageHeight - 180 * U,
                   headerFontSize, "HelveticaBold", Grey),
          DrawText(354, <<Str(data.clientName)>>, 50 * U, pageHeight - 200 * U,
                   normalFontSize, "HelveticaBold", Black) >>
       \o AddressLines(364, clientAddressLines, pageHeight - 215 * U)
       \o << DrawText(373, <<Str("Email: "), Str(data.clientEmail)>>, 50 * U,
                      pageHeight - 215 * U - Len(clientAddressLines) * 15 * U,
                      normalFontSize, "Helvetica", Black) >>

Col2 == tableLeft + columnWidths[1] + 10 * U
Col3 == tableLeft + columnWidths[1] + columnWidths[2] + 10 * U
Col4 == tableLeft + columnWidths[1] + columnWidths[2] + columnWidths[3] + 10 * U

\* lines 386-425
TableHeader ==
    << DrawRectangle(387, tableLeft, tableTop - 25 * U, tableRight - tableLeft, 25 * U,
                     Dark, Border(rgb(10, 10, 10), 1)),
       DrawText(398, <<Str("Description")>>, tableLeft + 10 * U, tableTop - 15 * U,
                headerFontSize, "HelveticaBold", White),
       DrawText(405, <<Str("Quantity")>>, Col2, tableTop - 15 * U,
                headerFontSize, "HelveticaBold", White),
       DrawText(412, <<Str("Unit Price")>>, Col3, tableTop - 15 * U,
                headerFontSize, "HelveticaBold", White),
       DrawText(419, <<Str("Amount")>>, Col4, tableTop - 15 * U,
                headerFontSize, "HelveticaBold", White) >>

\* variant: the odd rows are banded
IsBandedOdd(index) == index % 2 = 1

\* line 432: index % 2 === 0 (index is zero-based)
IsBanded(index) == index % 2 = 0

\* variant: a persisted amount is printed when the item carries one
RowAmountPersisted(item) ==
    IF IsDefined(item.amount) THEN Val(item.amount) ELSE item.quantity * item.unitPrice

\* line 430
RowAmount(item) == item.quantity * item.unitPrice

\* lines 429-471: the body of data.lineItems.forEach for one item
TableRow(item, index, yPosition) ==
    LET amount == RowAmount(item)
    IN (IF IsBanded(index)
        THEN << DrawRectangle(433, tableLeft, yPosition - 15 * U + 5 * U,
                              tableRight - tableLeft, 25 * U, BandGrey, NoBorder) >>
        ELSE << >>)
       \o << DrawText(442, <<Str(item.description)>>, tableLeft + 10 * U, yPosition,
                      normalFontSize, "Helvetica", Black),
             DrawText(449, <<toString(item.quantity)>>, Col2, yPosition,
                      normalFontSize, "Helvetica", Black),
             DrawText(456, <<Str("$"), toFixed2(item.unitPrice)>>, Col3, yPosition,
                      normalFontSize, "Helvetica", Black),
             DrawText(463, <<Str("$"), toFixed2(amount)>>, Col4, yPosition,
                      normalFontSize, "Helvetica", Black) >>

\* lines 427-471: data.lineItems.forEach(...) with the running cursor
\* yPosition; yields the primitives drawn and the cursor it leaves
RECURSIVE TableRowsFrom(_, _, _)
TableRowsFrom(items, index, yPosition) ==
    IF index >= Len(items) THEN [prims |-> << >>, yPosition |-> yPosition]
    ELSE LET rest == TableRowsFrom(items, index + 1, yPosition - 25 * U)
         IN [prims |-> TableRow(items[index + 1], index, yPosition) \o rest.prims,
             yPosition |-> rest.yPosition]

\* variant: the first row starts right under the header row
TableRowsFromHeader(data) == TableRowsFrom(data.lineItems, 0, tableTop - 25 * U)

TableRows(data) == TableRowsFrom(data.lineItems, 0, tableTop - 45 * U)

\* variant: the computed total is added onto the record's total on every call
WithTotalAccumulated(data) ==
    [data EXCEPT !.totalAmount =
        Some((IF IsDefined(@) THEN Val(@) ELSE 0) + reduceTotal(data.lineItems))]

\* lines 214-216: the record after "calculate total amount if not provided"
WithTotal(data) ==
    IF data.totalAmount = Undefined
    THEN [data EXCEPT !.totalAmount = Some(reduceTotal(data.lineItems))]
    ELSE data

\* line 476: data.totalAmount ?? 0
Subtotal(data) == IF IsDefined(data.totalAmount) THEN Val(data.totalAmount) ELSE 0

\* variant: a rate of 0.5 instead of 0.05
TaxAmountTenfold(subtotal) == (subtotal * taxRatePercent) \div 10

\* lines 477-478: subtotal * 0.05
TaxAmount(subtotal) == (subtotal * taxRatePercent) \div 100

\* line 479
GrandTotal(subtotal) == subtotal + TaxAmount(subtotal)

\* lines 473-542; yPosition is the cursor left by the last table row
TotalsBlock(data, yRows) ==
    LET y1 == yRows - 5 * U
        subtotal == Subtotal(data)
        taxAmount == TaxAmount(subtotal)
        grandTotal == GrandTotal(subtotal)
        y2 == y1 - 20 * U
        y3 == y2 - 20 * U
    IN << DrawText(482, <<Str("Subtotal:")>>, Col3, y1, normalFontSize, "HelveticaBold", Dark),
          DrawText(490, <<Str("$"), toFixed2(subtotal)>>, Col4, y1, normalFontSize, "Helvetica", Dark),
          DrawText(501, <<Str("Tax (5%):")>>, Col3, y2, normalFontSize, "HelveticaBold", Dark),
          DrawText(509, <<Str("$"), toFixed2(taxAmount)>>, Col4, y2, normalFontSize, "Helvetica", Dark),
          DrawRectangle(520, tableLeft + columnWidths[1] + columnWidths[2], y3 - 15 * U + 2 * U,
                        tableRight - (tableLeft + columnWidths[1] + columnWidths[2]), 30 * U,
                        Dark, NoBorder),
          DrawText(528, <<Str("TOTAL:")>>, Col3, y3, headerFontSize, "HelveticaBold", White),
          DrawText(536, <<Str("$"), toFixed2(grandTotal)>>, Col4, y3, headerFontSize, "HelveticaBold", White) >>

\* lines 544-613; yTotal is the cursor at the grand-total row
\* variant: no space is left between the grand total and the heading
PaymentInformationTight(data, yTotal) ==
    LET y1 == yTotal - 20 * U
        y2 == y1 - 20 * U
        y3 == y2 - 20 * U
        y4 == y3 - 15 * U
        y5 == y4 - 15 * U
    IN << DrawText(548, <<Str("PAYMENT INFORMATION")>>, tableLeft, y1, headerFontSize, "HelveticaBold", Dark),
          DrawText(557, <<Str("Please make payment via bank transfer to:")>>, tableLeft + 10 * U, y2,
                   normalFontSize, "Helvetica", Black),
          DrawText(567, <<Str("Bank Name:")>>, tableLeft + 10 * U, y3, normalFontSize, "HelveticaBold", Black),
          DrawText(574, <<Str("International Bank")>>, tableLeft + 100 * U, y3, normalFontSize, "Helvetica", Black),
          DrawText(583, <<Str("Account Name:")>>, tableLeft + 10 * U, y4, normalFontSize, "HelveticaBold", Black),
          DrawText(590, <<Str(data.companyName)>>, tableLeft + 100 * U, y4, normalFontSize, "Helvetica", Black),
          DrawText(599, <<Str("Account Number:")>>, tableLeft + 10 * U, y5, normalFontSize, "HelveticaBold", Black),
          DrawText(606, <<Str("1234567890")>>, tableLeft + 100 * U, y5, normalFontSize, "Helvetica", Black) >>

PaymentInformation(data, yTotal) ==
    LET y1 == yTotal - 30 * U - 20 * U
        y2 == y1 - 20 * U
        y3 == y2 - 20 * U
        y4 == y3 - 15 * U
        y5 == y4 - 15 * U
    IN << DrawText(548, <<Str("PAYMENT INFORMATION")>>, tableLeft, y1, headerFontSize, "HelveticaBold", Dark),
          DrawText(557, <<Str("Please make payment via bank transfer to:")>>, tableLeft + 10 * U, y2,
                   normalFontSize, "Helvetica", Black),
          DrawText(567, <<Str("Bank Name:")>>, tableLeft + 10 * U, y3, normalFontSize, "HelveticaBold", Black),
          DrawText(574, <<Str("International Bank")>>, tableLeft + 100 * U, y3, normalFontSize, "Helvetica", Black),
          DrawText(583, <<Str("Account Name:")>>, tableLeft + 10 * U, y4, normalFontSize, "HelveticaBold", Black),
          DrawText(590, <<Str(data.companyName)>>, tableLeft + 100 * U, y4, normalFontSize, "Helvetica", Black),
          DrawText(599, <<Str("Account Number:")>>, tableLeft + 10 * U, y5, normalFontSize, "HelveticaBold", Black),
          DrawText(606, <<Str("1234567890")>>, tableLeft + 100 * U, y5, normalFontSize, "Helvetica", Black) >>

\* lines 615-655; date is new Date() read through the local getters
Footer(date) ==
    LET currentDate == <<Str(monthNames[date.month + 1]), Str(" "), toString(date.date), Str(", "),
                         toString(date.year)>>
    IN << DrawLine(618, 50 * U, footerY + 30 * U, pageWidth - 50 * U, footerY + 30 * U, 1, LightGrey),
          DrawText(625, <<Str("Thank you for your business!")>>, pageWidth \div 2 - 80 * U, footerY + 15 * U,
                   normalFontSize, "HelveticaBold", Grey),
          DrawText(640, <<Str("Invoice generated on ")>> \o currentDate, pageWidth \div 2 - 100 * U, footerY,
                   smallFontSize, "Helvetica", Grey),
          DrawText(649, <<Str("Payment terms: Due within 30 days of issue")>>, pageWidth \div 2 - 120 * U,
                   footerY - 15 * U, smallFontSize, "Helvetica", Grey) >>

\* variant: the totals are drawn before the table rows
DrawCallsTotalsFirst(data, date, tz) ==
    LET rows == TableRows(data)
        yTotal == rows.yPosition - 5 * U - 20 * U - 20 * U
    IN HeaderBand
       \o CompanyBlock(data)
       \o MetaBlock(data, tz)
       \o HeaderDivider
       \o ClientBlock(data)
       \o TotalsBlock(data, rows.yPosition)
       \o TableHeader
       \o rows.prims
       \o PaymentInformation(data, yTotal)
       \o Footer(date)

\* lines 229-655: the draw calls of one render, in call order; data is the
\* record after lines 214-216
DrawCalls(data, date, tz) ==
    LET rows == TableRows(data)
        yTotal == rows.yPosition - 5 * U - 20 * U - 20 * U
    IN HeaderBand
       \o CompanyBlock(data)
       \o MetaBlock(data, tz)
       \o HeaderDivider
       \o ClientBlock(data)
       \o TableHeader
       \o rows.prims
       \o TotalsBlock(data, rows.yPosition)
       \o PaymentInformation(data, yTotal)
       \o Footer(date)

\* what the document emitter does in one call: "ok", or a rejection of
\* PDFDocument.create / embedFont (lines 218-223) or of save (line 657)
Outcomes == {"ok", "embedFont", "save"}

\* the calls made on the document emitter, in order, up to and including the
\* one that rejects: lines 218-223 (create, addPage, embedFont twice) and 657
EmitterCalls(outcome) ==
    IF outcome = "embedFont" THEN <<"create", "addPage", "embedFont">>
    ELSE <<"create", "addPage", "embedFont", "embedFont", "save">>

\* lines 657-658: new Blob([pdfBytes], {type: "application/pdf"}); the bytes
\* are the serialized pages of the document, one content stream per page
Blob(pages) == [type |-> "application/pdf", pages |-> pages]

\* variant: a rejected emitter call is made a second time before giving up
generateInvoiceRetrying(data, date, tz, outcome) ==
    LET d == WithTotal(data)
    IN [data |-> d,
        outcome |-> outcome,
        settled |-> IF outcome = "ok" THEN "fulfilled" ELSE "rejected",
        error |-> IF outcome = "ok" THEN Undefined ELSE Some(outcome),
        emitterCalls |-> IF outcome = "ok" THEN EmitterCalls(outcome)
                         ELSE Append(EmitterCalls(outcome), outcome),
        blob |-> IF outcome = "ok" THEN Some(Blob(<<DrawCalls(d, date, tz)>>)) ELSE Undefined]

\* lines 212-659: the record as the call leaves it, how the promise settles
\* (there is no try/catch: a rejected await rejects the call with the same
\* error), the emitter calls made, and the Blob returned, if any
generateInvoice(data, date, tz, outcome) ==
    LET d == WithTotal(data)
    IN [data |-> d,
        outcome |-> outcome,
        settled |-> IF outcome = "ok" THEN "fulfilled" ELSE "rejected",
        error |-> IF outcome = "ok" THEN Undefined ELSE Some(outcome),
        emitterCalls |-> EmitterCalls(outcome),
        blob |-> IF outcome = "ok" THEN Some(Blob(<<DrawCalls(d, date, tz)>>)) ELSE Undefined]

\* ------------------------------ generateInvoice (simple, invoice-actions.ts)
PaleGrey == rgb(90, 90, 90)
TotalGrey == rgb(95, 95, 95)

Whitespace == {" ", NL, "\t"}

\* String.prototype.trim()
RECURSIVE trimStart(_)
trimStart(s) == IF s # << >> /\ Head(s) \in Whitespace THEN trimStart(Tail(s)) ELSE s

RECURSIVE trimEnd(_)
trimEnd(s) ==
    IF s # << >> /\ s[Len(s)] \in Whitespace THEN trimEnd(SubSeq(s, 1, Len(s) - 1)) ELSE s

trim(s) == trimEnd(trimStart(s))

\* lines 132-173: title, company name, address lines, email, phone
CompanyBlockSimple(data) ==
    LET companyAddressLines == split(data.companyAddress)
    IN << DrawText(132, <<Str("INVOICE")>>, 50 * U, pageHeight - 50 * U, titleFontSize,
                   "HelveticaBold", Dark),
          DrawText(140, <<Str(data.companyName)>>, 50 * U, pageHeight - 90 * U,
                   headerFontSize, "HelveticaBold", Black) >>
       \o AddressLines(150, companyAddressLines, pageHeight - 110 * U)
       \o << DrawText(159, <<Str("Email: "), Str(data.companyEmail)>>, 50 * U,
                      pageHeight - 110 * U - Len(companyAddressLines) * 15 * U,
                      normalFontSize, "Helvetica", Black),
             DrawText(167, <<Str("Phone: "), Str(data.companyPhone)>>, 50 * U,
                      pageHeight - 125 * U - Len(companyAddressLines) * 15 * U,
                      normalFontSize, "Helvetica", Black) >>

\* lines 175-205: invoice number, dates, divider
MetaBlockSimple(data, tz) ==
    << DrawText(175, <<Str("Invoice #: "), Str(data.invoiceNumber)>>, pageWidth - 200 * U,
                pageHeight - 90 * U, normalFontSize, "Helvetica", Black),
       DrawText(184, <<Str("Date: ")>> \o formatDate(data.invoiceDate, tz), pageWidth - 200 * U,
                pageHeight - 105 * U, normalFontSize, "Helvetica", Black),
       DrawText(192, <<Str("Due Date: ")>> \o formatDate(data.dueDate, tz), pageWidth - 200 * U,
                pageHeight - 120 * U, normalFontSize, "Helvetica", Black),
       DrawLine(200, 50 * U, pageHeight - 150 * U, pageWidth - 50 * U, pageHeight - 150 * U,
                2, LightGrey) >>

\* lines 207-240
ClientBlockSimple(data) ==
    LET clientAddressLines == split(data.clientAddress)
    IN << DrawText(207, <<Str("BILL TO:")>>, 50 * U, pageHeight - 180 * U,
                   headerFontSize, "HelveticaBold", Grey),
          DrawText(215, <<Str(data.clientName)>>, 50 * U, pageHeight - 200 * U,
                   normalFontSize, "HelveticaBold", Black) >>
       \o AddressLines(225, clientAddressLines, pageHeight - 215 * U)
       \o << DrawText(234, <<Str("Email: "), Str(data.clientEmail)>>, 50 * U,
                      pageHeight - 215 * U - Len(clientAddressLines) * 15 * U,
                      normalFontSize, "Helvetica", Black) >>

\* lines 247-284
TableHeaderSimple ==
    << DrawRectangle(247, tableLeft, tableTop - 25 * U, tableRight - tableLeft, 25 * U,
                     PaleGrey, Border(LightGrey, 1)),
       DrawText(257, <<Str("Description")>>, tableLeft + 10 * U, tableTop - 15 * U,
                headerFontSize, "HelveticaBold", Dark),
       DrawText(264, <<Str("Quantity")>>, Col2, tableTop - 15 * U,
                headerFontSize, "HelveticaBold", Dark),
       DrawText(271, <<Str("Unit Price")>>, Col3, tableTop - 15 * U,
                headerFontSize, "HelveticaBold", Dark),
       DrawText(278, <<Str("Amount")>>, Col4, tableTop - 15 * U,
                headerFontSize, "HelveticaBold", Dark) >>

\* variant: the simple layout bands the odd rows
TableRowSimpleBandedOdd(item, index, yPosition) ==
    LET amount == item.quantity * item.unitPrice
    IN (IF index % 2 = 1
        THEN << DrawRectangle(294, tableLeft, yPosition - 15 * U + 5 * U,
                              tableRight - tableLeft, 25 * U, BandGrey, NoBorder) >>
        ELSE << >>)
       \o << DrawText(303, <<Str(item.description)>>, tableLeft + 10 * U, yPosition,
                      normalFontSize, "Helvetica", Black),
             DrawText(310, <<toString(item.quantity)>>, Col2, yPosition,
                      normalFontSize, "Helvetica", Black),
             DrawText(317, <<Str("$"), toFixed2(item.unitPrice)>>, Col3, yPosition,
                      normalFontSize, "Helvetica", Black),
             DrawText(324, <<Str("$"), toFixed2(amount)>>, Col4, yPosition,
                      normalFontSize, "Helvetica", Black) >>

\* lines 289-332: the body of data.lineItems.forEach for one item
TableRowSimple(item, index, yPosition) ==
    LET amount == item.quantity * item.unitPrice
    IN (IF index % 2 = 0
        THEN << DrawRectangle(294, tableLeft, yPosition - 15 * U + 5 * U,
                              tableRight - tableLeft, 25 * U, BandGrey, NoBorder) >>
        ELSE << >>)
       \o << DrawText(303, <<Str(item.description)>>, tableLeft + 10 * U, yPosition,
                      normalFontSize, "Helvetica", Black),
             DrawText(310, <<toString(item.quantity)>>, Col2, yPosition,
                      normalFontSize, "Helvetica", Black),
             DrawText(317, <<Str("$"), toFixed2(item.unitPrice)>>, Col3, yPosition,
                      normalFontSize, "Helvetica", Black),
             DrawText(324, <<Str("$"), toFixed2(amount)>>, Col4, yPosition,
                      normalFontSize, "Helvetica", Black) >>

\* lines 286-332
RECURSIVE TableRowsSimpleFrom(_, _, _)
TableRowsSimpleFrom(items, index, yPosition) ==
    IF index >= Len(items) THEN [prims |-> << >>, yPosition |-> yPosition]
    ELSE LET rest == TableRowsSimpleFrom(items, index + 1, yPosition - 25 * U)
         IN [prims |-> TableRowSimple(items[index + 1], index, yPosition) \o rest.prims,
             yPosition |-> rest.yPosition]

\* lines 334-359; yields the cursor after "space after total"
TotalSimple(data, yRows) ==
    LET y1 == yRows - 5 * U
    IN [prims |->
          << DrawRectangle(336, tableLeft + columnWidths[1] + columnWidths[2], y1 - 15 * U + 2 * U,
                           tableRight - (tableLeft + columnWidths[1] + columnWidths[2]), 30 * U,
                           TotalGrey, NoBorder),
             DrawText(344, <<Str("Total:")>>, Col3, y1, headerFontSize, "HelveticaBold", Black),
             DrawText(352, <<Str("$"), toFixed2(Subtotal(data))>>, Col4, y1, headerFontSize,
                      "HelveticaBold", Dark) >>,
        yPosition |-> y1 - 30 * U]

\* variant: the block is drawn whenever the record has a notes field
HasNotesWhenDefined(data) == IsDefined(data.notes)

\* line 361: data.notes && data.notes.trim() !== ""
HasNotes(data) ==
    /\ IsDefined(data.notes)
    /\ Val(data.notes) # << >>
    /\ trim(Val(data.notes)) # << >>

\* lines 361-383; yields the primitives and the cursor it leaves
NotesBlock(data, yPosition) ==
    IF HasNotes(data)
    THEN LET y1 == yPosition - 20 * U
             y2 == y1 - 20 * U
             notesLines == split(Val(data.notes))
         IN [prims |->
               << DrawText(363, <<Str("NOTES:")>>, tableLeft, y1, headerFontSize,
                           "HelveticaBold", Grey) >>
               \o [i \in 1..Len(notesLines) |->
                     DrawText(374, <<Chars(notesLines[i])>>, tableLeft + 10 * U,
                              y2 - (i - 1) * 15 * U, normalFontSize, "Helvetica", Black)],
             yPosition |-> y2 - Len(notesLines) * 15 * U]
    ELSE [prims |-> << >>, yPosition |-> yPosition]

\* lines 385-391
ThankYouSimple ==
    << DrawText(385, <<Str("Thank you for your business!")>>, pageWidth \div 2 - 80 * U, 50 * U,
                normalFontSize, "Helvetica", Grey) >>

\* lines 132-391: the draw calls of one render and the cursor at the end
DrawCallsSimple(data, tz) ==
    LET rows == TableRowsSimpleFrom(data.lineItems, 0, tableTop - 45 * U)
        total == TotalSimple(data, rows.yPosition)
        notes == NotesBlock(data, total.yPosition)
    IN [prims |-> CompanyBlockSimple(data)
                  \o MetaBlockSimple(data, tz)
                  \o ClientBlockSimple(data)
                  \o TableHeaderSimple
                  \o rows.prims
                  \o total.prims
                  \o notes.prims
                  \o ThankYouSimple,
        yPosition |-> notes.yPosition]

\* lines 120-395: the record is only read
generateInvoiceSimple(data, tz, outcome) ==
    [data |-> data,
     outcome |-> outcome,
     settled |-> IF outcome = "ok" THEN "fulfilled" ELSE "rejected",
     error |-> IF outcome = "ok" THEN Undefined ELSE Some(outcome),
     emitterCalls |-> EmitterCalls(outcome),
     blob |-> IF outcome = "ok" THEN Some(Blob(<<DrawCallsSimple(data, tz).prims>>)) ELSE Undefined,
     yPosition |-> IF outcome = "embedFont" THEN Undefined
                   ELSE Some(DrawCallsSimple(data, tz).yPosition)]

\* ------------------------------------------------------------ the records
Statuses ==
    { <<"d","r","a","f","t">>, <<"s","e","n","t">>, <<"p","a","i","d">>,
      <<"o","v","e","r","d","u","e">>, <<"c","a","n","c","e","l","l","e","d">>,
      <<"P","A","I","D">>, <<"p","A","i","D">> }

\* the status field is optional
StatusValues == {Some(st) : st \in Statuses} \cup {Undefined}

Quantities == {1, 2}

\* a line item as the form builds it (no amount) or as the store returns it
\* (amount = quantity * unitPrice when it was saved)
FormItem(desc, q, p) == [description |-> desc, quantity |-> q, unitPrice |-> p, amount |-> Undefined]
StoredItem(desc, q, p) == [description |-> desc, quantity |-> q, unitPrice |-> p, amount |-> Some(q * p)]

ItemPool == { FormItem("Design", 1, 1200) }

InitialLineItems ==
    { << FormItem("Consulting", 2, 100 * Money) >>,
      << StoredItem("Hosting", 1, 1200), FormItem("Consulting", 2, 100 * Money),
         StoredItem("Support", 2, 1200) >> }

InitialAddresses == { <<"a", NL, "b">> }

DateString(y, m, d) == [year |-> y, month |-> m, day |-> d, form |-> "date", hour |-> 0]

BaseRecord(items, total, companyAddress) ==
    [invoiceNumber |-> "INV-1",
     invoiceDate |-> DateString(2024, 1, 5),
     dueDate |-> DateString(2024, 2, 4),
     companyName |-> "Acme",
     companyAddress |-> companyAddress,
     companyEmail |-> "billing@acme.test",
     companyPhone |-> "555-0100",
     clientName |-> "Client",
     clientAddress |-> <<"z">>,
     clientEmail |-> "client@example.test",
     status |-> Some(<<"d","r","a","f","t">>),
     notes |-> Undefined,
     totalAmount |-> total,
     lineItems |-> items]

TimeZones == {-5}

\* ------------------------------------------------------------------ state
VARIABLES
    data,       \* the caller's InvoiceData object
    today,      \* the local calendar date of the clock (new Date())
    tz,         \* the process's offset from UTC, in hours
    calls,      \* number of generateInvoice calls made
    edits,      \* number of changes the caller made to the record
    ticks,      \* number of midnights passed
    fresh,      \* the caller has not changed the record since the last call
    arg,        \* the record as passed to the latest call
    argFresh,   \* value of fresh when the latest call was made
    settled,    \* "none", or how the latest call's promise settled
    out,        \* page content of the latest call's Blob (<< >> if rejected)
    callDate,   \* the clock's date when the latest call was made
    prevArg,    \* the record as passed to the call before the latest
    prevOut,    \* page content of the Blob of the call before the latest
    prevCallDate, \* the clock's date when the call before the latest was made
    variant,    \* which generateInvoice made the latest Blob: "rich" or "simple"
    prevVariant, \* which generateInvoice made the Blob before the latest
    last,       \* what the latest call did: outcome, settlement, error, Blob

    \* calls of generateInvoice in flight at the same time
    heap,       \* the InvoiceData objects, by reference
    given,      \* the objects as they were before any call
    rec,        \* the object each call was given
    pc,         \* where each call stands
    page,       \* the page each call has drawn
    blob,       \* the Blob each call returned

    \* the invoices API
    store,      \* the invoices collection: the document stored under each id
    isConnected, \* the isConnected flag of each route module
    response,   \* the latest response
    requests,   \* number of requests handled

    \* the invoices list page and the edit page, with the toasts they raise
    invoices,   \* InvoicesPage: the invoices state (the _ids displayed, in order)
    loading,    \* InvoicesPage: the loading state
    deleting,   \* InvoicesPage: the deleting state
    deletes,    \* the handleDelete calls: id, the invoices its closure holds, position
    fetches,    \* the fetchInvoices calls: position
    formLineItems, \* EditInvoicePage: the lineItems state
    isLoading,  \* EditInvoicePage: the isLoading state
    form,       \* EditInvoicePage: the values held by the form
    loads,      \* the fetchInvoice calls: position
    toasts,     \* the toasts raised so far, oldest first

    \* the server action saveInvoice and its Postgres tables
    invoicesTable,  \* committed rows of invoices
    lineItemsTable, \* committed rows of line_items
    saved,      \* what the latest saveInvoice call returned
    saves,      \* number of saveInvoice calls made

    \* API handlers in flight inside connectToDatabase
    handlers,   \* each handler: its route module, position and answer
    connects    \* the mongoose.connect calls made: route module and outcome

callVars == <<data, today, tz, calls, edits, ticks, fresh, arg, argFresh, settled, out,
              callDate, prevArg, prevOut, prevCallDate, variant, prevVariant, last>>

concVars == <<heap, given, rec, pc, page, blob>>

apiVars == <<store, isConnected, response, requests>>

pageVars == <<invoices, loading, deleting, deletes, fetches, formLineItems, isLoading, form,
              loads, toasts>>

sqlVars == <<invoicesTable, lineItemsTable, saved, saves>>

connVars == <<handlers, connects>>

vars == <<callVars, concVars, apiVars, pageVars, sqlVars, connVars>>

renderVars == <<calls, fresh, arg, argFresh, settled, out, callDate, prevArg, prevOut,
                prevCallDate, variant, prevVariant, last>>

\* no call in flight
NoCalls ==
    /\ heap = << >>
    /\ given = << >>
    /\ rec = << >>
    /\ pc = << >>
    /\ page = << >>
    /\ blob = << >>

\* no request made
NoRequests ==
    /\ store = << >>
    /\ isConnected = << >>
    /\ response = Undefined
    /\ requests = 0

\* no page mounted
NoPages ==
    /\ invoices = << >>
    /\ loading = TRUE
    /\ deleting = Undefined
    /\ deletes = << >>
    /\ fetches = << >>
    /\ formLineItems = << >>
    /\ isLoading = TRUE
    /\ form = Undefined
    /\ loads = << >>
    /\ toasts = << >>

\* no invoice saved by the server action
NoSaves ==
    /\ invoicesTable = {}
    /\ lineItemsTable = {}
    /\ saved = Undefined
    /\ saves = 0

\* no handler in flight
NoHandlers ==
    /\ handlers = << >>
    /\ connects = << >>

NoCall == [outcome |-> "none", settled |-> "none", error |-> Undefined,
           emitterCalls |-> << >>, blob |-> Undefined]

Init ==
    /\ \E items \in InitialLineItems, hasTotal \in BOOLEAN, addr \in InitialAddresses :
          data = BaseRecord(items, IF hasTotal THEN Some(reduceTotal(items)) ELSE Undefined, addr)
    /\ today = [year |-> 2024, month |-> 11, date |-> 31]
    /\ tz \in TimeZones
    /\ calls = 0
    /\ edits = 0
    /\ ticks = 0
    /\ fresh = FALSE
    /\ arg = data
    /\ argFresh = FALSE
    /\ settled = "none"
    /\ out = << >>
    /\ callDate = today
    /\ prevArg = data
    /\ prevOut = << >>
    /\ prevCallDate = today
    /\ variant = "rich"
    /\ prevVariant = "rich"
    /\ last = NoCall
    /\ NoCalls
    /\ NoRequests
    /\ NoPages
    /\ NoSaves
    /\ NoHandlers

\* await generateInvoice(data): the whole call, the emitter's outcome included.
\* A rejected call hands the caller no Blob: the caller keeps the Blobs it had.
Render(outcome) ==
    /\ calls < MaxCalls
    /\ LET r == generateInvoice(data, today, tz, outcome)
       IN /\ data' = r.data
          /\ IF r.settled = "fulfilled"
             THEN /\ out' = Val(r.blob).pages[1]
                  /\ arg' = data
                  /\ argFresh' = fresh
                  /\ callDate' = today
                  /\ prevArg' = arg
                  /\ prevOut' = out
                  /\ prevCallDate' = callDate
                  /\ variant' = "rich"
                  /\ prevVariant' = variant
                  /\ fresh' = TRUE
             ELSE UNCHANGED <<out, arg, argFresh, callDate, prevArg, prevOut, prevCallDate,
                              variant, prevVariant, fresh>>
          /\ settled' = r.settled
          /\ last' = [outcome |-> r.outcome, settled |-> r.settled, error |-> r.error,
                      emitterCalls |-> r.emitterCalls, blob |-> r.blob]
    /\ calls' = calls + 1
    /\ UNCHANGED <<today, tz, edits, ticks>>
    /\ UNCHANGED <<concVars, apiVars, pageVars, sqlVars, connVars>>

\* the clock passes local midnight
Tick ==
    /\ ticks < MaxTicks
    /\ today' = NextDay(today)
    /\ ticks' = ticks + 1
    /\ UNCHANGED <<data, tz, edits>>
    /\ UNCHANGED renderVars
    /\ UNCHANGED <<concVars, apiVars, pageVars, sqlVars, connVars>>

\* the caller changes its record between calls (the code that builds and
\* keeps the record is outside generateInvoice)
CallerChanges(newData) ==
    /\ edits < MaxEdits
    /\ newData # data
    /\ data' = newData
    /\ edits' = edits + 1
    /\ fresh' = FALSE
    /\ UNCHANGED <<today, tz, ticks, calls, arg, argFresh, settled, out, callDate,
                   prevArg, prevOut, prevCallDate, variant, prevVariant, last>>
    /\ UNCHANGED <<concVars, apiVars, pageVars, sqlVars, connVars>>

\* data.lineItems.push(item)
CallerAppendsItem(item) ==
    /\ Len(data.lineItems) < MaxItems
    /\ CallerChanges([data EXCEPT !.lineItems = Append(@, item)])

\* data.lineItems.splice(index, 1)
CallerRemovesItem(index) ==
    /\ Len(data.lineItems) > 1
    /\ index \in 0..(Len(data.lineItems) - 1)
    /\ CallerChanges([data EXCEPT !.lineItems =
                SubSeq(@, 1, index) \o SubSeq(@, index + 2, Len(@))])

\* data.lineItems[index].quantity = value; an amount the item carries stays
CallerSetsQuantity(index, value) ==
    /\ index \in 0..(Len(data.lineItems) - 1)
    /\ CallerChanges([data EXCEPT !.lineItems[index + 1].quantity = value])

\* one more line of text at the end of an address field
CallerAddsAddressLine(field) ==
    /\ Len(split(data[field])) < MaxLines
    /\ CallerChanges([data EXCEPT ![field] = @ \o <<NL, "n">>])

\* data.status = s, or delete data.status
CallerSetsStatus(s) ==
    /\ s \in StatusValues
    /\ CallerChanges([data EXCEPT !.status = s])

Next ==
    \/ \E outcome \in Outcomes : Render(outcome)
    \/ Tick
    \/ \E item \in ItemPool : CallerAppendsItem(item)
    \/ \E index \in 0..(MaxItems - 1) : CallerRemovesItem(index)
    \/ \E index \in 0..(MaxItems - 1), q \in Quantities : CallerSetsQuantity(index, q)
    \/ \E field \in {"companyAddress", "clientAddress"} : CallerAddsAddressLine(field)
    \/ \E s \in StatusValues : CallerSetsStatus(s)

Spec == Init /\ [][Next]_vars

\* ------------------------------------- both variants over a range of inputs
NotesValues ==
    { Undefined, Some(<< >>), Some(<<" ", NL>>), Some(<<"x">>), Some(<<"x", NL, "y">>) }

\* company and client address texts: empty, one line, several lines, empty
\* lines in between and at the end
InputAddresses ==
    { << << >>, <<"z">> >>,
      << <<"a">>, << >> >>,
      << <<"a", NL, "b">>, <<NL>> >>,
      << <<"a", NL, NL, "b", NL>>, <<"y", NL, "z">> >> }

\* a timezone offset with an invoice date and a due date: a date-only string
\* and timestamps with and without zone
InputDates ==
    { [tz |-> -5, invoiceDate |-> DateString(2024, 1, 5),
       dueDate |-> [year |-> 2024, month |-> 3, day |-> 1, form |-> "utc", hour |-> 2]],
      [tz |-> 0, invoiceDate |-> DateString(2024, 1, 5),
       dueDate |-> [year |-> 2024, month |-> 3, day |-> 1, form |-> "utc", hour |-> 23]],
      [tz |-> 9, invoiceDate |-> [year |-> 2024, month |-> 12, day |-> 31, form |-> "utc", hour |-> 20],
       dueDate |-> [year |-> 2025, month |-> 1, day |-> 30, form |-> "local", hour |-> 23]] }

InitInputs ==
    /\ \E items \in InitialLineItems, addr \in InputAddresses,
          dates \in InputDates, notes \in {Undefined, Some(<<"x", NL, "y">>)} :
          /\ data = [BaseRecord(items, IF Len(items) > 1 THEN Some(reduceTotal(items)) ELSE Undefined,
                                addr[1])
                       EXCEPT !.clientAddress = addr[2],
                              !.invoiceDate = dates.invoiceDate,
                              !.dueDate = dates.dueDate,
                              !.notes = notes]
          /\ tz = dates.tz
    /\ today = [year |-> 2024, month |-> 11, date |-> 31]
    /\ calls = 0
    /\ edits = 0
    /\ ticks = 0
    /\ fresh = FALSE
    /\ arg = data
    /\ argFresh = FALSE
    /\ settled = "none"
    /\ out = << >>
    /\ callDate = today
    /\ prevArg = data
    /\ prevOut = << >>
    /\ prevCallDate = today
    /\ variant = "rich"
    /\ prevVariant = "rich"
    /\ last = NoCall
    /\ NoCalls
    /\ NoRequests
    /\ NoPages
    /\ NoSaves
    /\ NoHandlers

\* await generateInvoice(data) of invoice-actions.ts: the whole call
RenderSimple(outcome) ==
    /\ calls < MaxCalls
    /\ LET r == generateInvoiceSimple(data, tz, outcome)
       IN /\ data' = r.data
          /\ IF r.settled = "fulfilled"
             THEN /\ out' = Val(r.blob).pages[1]
                  /\ arg' = data
                  /\ argFresh' = fresh
                  /\ callDate' = today
                  /\ prevArg' = arg
                  /\ prevOut' = out
                  /\ prevCallDate' = callDate
                  /\ variant' = "simple"
                  /\ prevVariant' = variant
                  /\ fresh' = TRUE
             ELSE UNCHANGED <<out, arg, argFresh, callDate, prevArg, prevOut, prevCallDate,
                              variant, prevVariant, fresh>>
          /\ settled' = r.settled
          /\ last' = [outcome |-> r.outcome, settled |-> r.settled, error |-> r.error,
                      emitterCalls |-> r.emitterCalls, blob |-> r.blob,
                      yPosition |-> r.yPosition]
    /\ calls' = calls + 1
    /\ UNCHANGED <<today, tz, edits, ticks>>
    /\ UNCHANGED <<concVars, apiVars, pageVars, sqlVars, connVars>>

\* data.notes = n, or delete data.notes
CallerSetsNotes(n) ==
    /\ n \in NotesValues
    /\ CallerChanges([data EXCEPT !.notes = n])

NextInputs ==
    \/ \E outcome \in Outcomes : Render(outcome)
    \/ \E outcome \in Outcomes : RenderSimple(outcome)
    \/ \E n \in NotesValues : CallerSetsNotes(n)

SpecInputs == InitInputs /\ [][NextInputs]_vars

\* ---------------------------------------- generateInvoice calls in flight
MaxInFlight == 2

CallIds == 1..MaxInFlight
RecordIds == {1, 2}

\* the state of the single caller of Spec when no generateInvoice call of
\* that caller is modelled
NoRender ==
    /\ data = BaseRecord(<< FormItem("Consulting", 2, 100 * Money) >>, Undefined, <<"a">>)
    /\ today = [year |-> 2024, month |-> 11, date |-> 31]
    /\ tz = 0
    /\ calls = 0
    /\ edits = 0
    /\ ticks = 0
    /\ fresh = FALSE
    /\ arg = data
    /\ argFresh = FALSE
    /\ settled = "none"
    /\ out = << >>
    /\ callDate = today
    /\ prevArg = data
    /\ prevOut = << >>
    /\ prevCallDate = today
    /\ variant = "rich"
    /\ prevVariant = "rich"
    /\ last = NoCall

\* two InvoiceData objects, and for each call the object it is given: the
\* calls are given different objects or the same one
InitConcurrent ==
    /\ NoRender
    /\ NoRequests
    /\ NoPages
    /\ NoSaves
    /\ NoHandlers
    /\ \E items \in InitialLineItems, hasTotal \in BOOLEAN, other \in BOOLEAN :
          heap = [r \in RecordIds |->
                    IF r = 1
                    THEN BaseRecord(items, IF hasTotal THEN Some(reduceTotal(items)) ELSE Undefined,
                                    <<"a", NL, "b">>)
                    ELSE BaseRecord(<< FormItem("Design", 1, 1200) >>,
                                    IF other THEN Some(1200) ELSE Undefined, <<"c">>)]
    /\ given = heap
    /\ rec \in [CallIds -> RecordIds]
    /\ pc = [c \in CallIds |-> "ready"]
    /\ page = [c \in CallIds |-> << >>]
    /\ blob = [c \in CallIds |-> Undefined]

\* generateInvoice(data) is called: lines 213-216 run at once, then the call
\* waits for PDFDocument.create() (line 218)
Start(c) ==
    /\ pc[c] = "ready"
    /\ heap' = [heap EXCEPT ![rec[c]] = WithTotal(@)]
    /\ pc' = [pc EXCEPT ![c] = "create"]
    /\ UNCHANGED <<given, rec, page, blob>>
    /\ UNCHANGED <<callVars, apiVars, pageVars, sqlVars, connVars>>

\* the document is there: lines 219-220, then the call waits for the first
\* embedFont (line 222)
Created(c) ==
    /\ pc[c] = "create"
    /\ pc' = [pc EXCEPT ![c] = "embedFont"]
    /\ UNCHANGED <<heap, given, rec, page, blob>>
    /\ UNCHANGED <<callVars, apiVars, pageVars, sqlVars, connVars>>

\* the first font is there: the call waits for the second embedFont (line 223)
EmbeddedFont(c) ==
    /\ pc[c] = "embedFont"
    /\ pc' = [pc EXCEPT ![c] = "embedFontBold"]
    /\ UNCHANGED <<heap, given, rec, page, blob>>
    /\ UNCHANGED <<callVars, apiVars, pageVars, sqlVars, connVars>>

\* the second font is there: lines 225-655 run at once, drawing the call's
\* page from the object as it is now, then the call waits for save (line 657)
Draw(c) ==
    /\ pc[c] = "embedFontBold"
    /\ page' = [page EXCEPT ![c] = DrawCalls(heap[rec[c]], today, tz)]
    /\ pc' = [pc EXCEPT ![c] = "save"]
    /\ UNCHANGED <<heap, given, rec, blob>>
    /\ UNCHANGED <<callVars, apiVars, pageVars, sqlVars, connVars>>

\* the bytes are there: line 658 returns the Blob
Saved(c) ==
    /\ pc[c] = "save"
    /\ blob' = [blob EXCEPT ![c] = Some(Blob(<<page[c]>>))]
    /\ pc' = [pc EXCEPT ![c] = "fulfilled"]
    /\ UNCHANGED <<heap, given, rec, page>>
    /\ UNCHANGED <<callVars, apiVars, pageVars, sqlVars, connVars>>

\* the emitter call the call waits for rejects: the call rejects
Rejected(c) ==
    /\ pc[c] \in {"create", "embedFont", "embedFontBold", "save"}
    /\ pc' = [pc EXCEPT ![c] = "rejected"]
    /\ UNCHANGED <<heap, given, rec, page, blob>>
    /\ UNCHANGED <<callVars, apiVars, pageVars, sqlVars, connVars>>

NextConcurrent ==
    \E c \in CallIds :
        \/ Start(c)
        \/ Created(c)
        \/ EmbeddedFont(c)
        \/ Draw(c)
        \/ Saved(c)
        \/ Rejected(c)

SpecConcurrent == InitConcurrent /\ [][NextConcurrent]_vars

\* ------------------------------------------------------- the invoices API
MaxRequests == 3

\* ids as they come in the URL: two well-formed ObjectIds and a string that
\* is none
ObjectIds == {"65f000000000000000000001", "65f000000000000000000002"}
IdStrings == ObjectIds \cup {"not-an-id"}

\* request line items
GoodItem == [description |-> "Consulting", quantity |-> 2, unitPrice |-> 100 * Money]
FreeItem == [description |-> "Gift", quantity |-> 1, unitPrice |-> 0]
ZeroQuantityItem == [description |-> "Nothing", quantity |-> 0, unitPrice |-> 100 * Money]
NegativePriceItem == [description |-> "Refund", quantity |-> 1, unitPrice |-> -100]

\* a request body: each key is absent (<<>>) or present; invoiceNumber stands
\* for the ten text and date fields, which are well-formed whenever it is
Body(invoiceNumber, totalAmount, status, lineItems) ==
    [invoiceNumber |-> invoiceNumber, totalAmount |-> totalAmount, status |-> status,
     lineItems |-> lineItems]

Bodies ==
    { Body(Some("INV-1"), Some(200 * Money), Undefined, Some(<<GoodItem>>)),
      Body(Some("INV-2"), Some(200 * Money), Some("paid"), Some(<<GoodItem, GoodItem>>)),
      Body(Some("INV-3"), Some(200 * Money), Some("PAID"), Some(<<GoodItem>>)),
      Body(Some("INV-4"), Some(200 * Money), Undefined, Some(<< >>)),
      Body(Some("INV-5"), Some(200 * Money), Undefined, Some(<<GoodItem, ZeroQuantityItem>>)),
      Body(Some("INV-6"), Some(200 * Money), Undefined, Some(<<NegativePriceItem>>)),
      Body(Some("INV-7"), Some(200 * Money), Undefined, Some(<<FreeItem>>)),
      Body(Some(""), Some(200 * Money), Undefined, Some(<<GoodItem>>)),
      Body(Undefined, Undefined, Some("sent"), Undefined),
      Body(Undefined, Undefined, Undefined, Some(<< >>)) }

\* part_000 lines 370-374: lineItemSchemaZod
LineItemZodOk(item) ==
    /\ item.description # ""
    /\ item.quantity > 0
    /\ item.unitPrice > 0

\* part_000 lines 376-391: invoiceFormSchema.safeParse(data).success
ZodOk(body) ==
    /\ IsDefined(body.invoiceNumber) /\ Val(body.invoiceNumber) # ""
    /\ IsDefined(body.totalAmount) /\ Val(body.totalAmount) > 0
    /\ IsDefined(body.lineItems) /\ Len(Val(body.lineItems)) >= 1
    /\ \A i \in 1..Len(Val(body.lineItems)) : LineItemZodOk(Val(body.lineItems)[i])

\* validationResult.data: status defaults to 'draft'
ZodData(body) ==
    [body EXCEPT !.status = IF IsDefined(@) THEN @ ELSE Some("draft")]

StatusEnum == {"draft", "sent", "paid", "overdue", "cancelled"}

\* part_000 lines 36-51 and 279-294: the validators of lineItemSchema
LineItemValid(item) ==
    /\ item.description # ""
    /\ item.quantity >= 1
    /\ item.unitPrice >= 0

\* part_000 lines 54-121 and 297-364: the validators of invoiceSchema on the
\* keys that are present; the lineItems array itself carries no validator
KeysValid(body) ==
    /\ IsDefined(body.invoiceNumber) => Val(body.invoiceNumber) # ""
    /\ IsDefined(body.totalAmount) => Val(body.totalAmount) >= 0
    /\ IsDefined(body.status) => Val(body.status) \in StatusEnum
    /\ IsDefined(body.lineItems) =>
          \A i \in 1..Len(Val(body.lineItems)) : LineItemValid(Val(body.lineItems)[i])

\* document validation on save: required keys and the validators
DocumentValid(body) ==
    /\ IsDefined(body.invoiceNumber)
    /\ IsDefined(body.totalAmount)
    /\ KeysValid(body)

\* new Invoice(validatedData): the document that is stored
Document(body) ==
    [invoiceNumber |-> Val(body.invoiceNumber),
     totalAmount |-> Val(body.totalAmount),
     status |-> IF IsDefined(body.status) THEN Val(body.status) ELSE "draft",
     lineItems |-> IF IsDefined(body.lineItems) THEN Val(body.lineItems) ELSE << >>]

\* findByIdAndUpdate(id, data): the keys of data are set on the document
Updated(doc, body) ==
    [invoiceNumber |-> IF IsDefined(body.invoiceNumber) THEN Val(body.invoiceNumber) ELSE doc.invoiceNumber,
     totalAmount |-> IF IsDefined(body.totalAmount) THEN Val(body.totalAmount) ELSE doc.totalAmount,
     status |-> IF IsDefined(body.status) THEN Val(body.status) ELSE doc.status,
     lineItems |-> IF IsDefined(body.lineItems) THEN Val(body.lineItems) ELSE doc.lineItems]

\* the _id given to a new document
FreeIds == {id \in ObjectIds : store[id] = Undefined}
NewId == CHOOSE id \in FreeIds : TRUE

Respond(status) == Some([status |-> status])

InitApi ==
    /\ NoRender
    /\ NoCalls
    /\ NoPages
    /\ NoSaves
    /\ NoHandlers
    /\ store = [id \in ObjectIds |-> Undefined]
    /\ isConnected = [invoices |-> FALSE, invoice |-> FALSE]
    /\ response = Undefined
    /\ requests = 0

\* part_000 lines 248-276 and 7-33: connectToDatabase() of a route module;
\* yields whether it returned and the module's isConnected flag
connectToDatabase(connected, dbUp) ==
    IF connected THEN [ok |-> TRUE, isConnected |-> TRUE]
    ELSE IF dbUp THEN [ok |-> TRUE, isConnected |-> TRUE]
    ELSE [ok |-> FALSE, isConnected |-> FALSE]

\* part_000 lines 409-442: POST /api/invoices
POST(body, dbUp) ==
    /\ requests < MaxRequests
    /\ requests' = requests + 1
    /\ IF ~ZodOk(body)
       THEN /\ response' = Respond(400)
            /\ UNCHANGED <<store, isConnected>>
       ELSE LET conn == connectToDatabase(isConnected.invoices, dbUp)
                validatedData == ZodData(body)
            IN /\ isConnected' = [isConnected EXCEPT !.invoices = conn.isConnected]
               /\ IF conn.ok /\ dbUp /\ DocumentValid(validatedData) /\ FreeIds # {}
                  THEN /\ store' = [store EXCEPT ![NewId] = Some(Document(validatedData))]
                       /\ response' = Respond(201)
                  ELSE /\ response' = Respond(500)
                       /\ UNCHANGED store
    /\ UNCHANGED <<callVars, concVars, pageVars, sqlVars, connVars>>

\* part_000 lines 164-203: PUT /api/invoices/:id
PUT(id, body, dbUp) ==
    /\ requests < MaxRequests
    /\ requests' = requests + 1
    /\ LET conn == connectToDatabase(isConnected.invoice, dbUp)
       IN /\ isConnected' = [isConnected EXCEPT !.invoice = conn.isConnected]
          /\ IF ~conn.ok
             THEN response' = Respond(500) /\ UNCHANGED store
             ELSE IF id \notin ObjectIds
             THEN response' = Respond(400) /\ UNCHANGED store
             ELSE IF ~dbUp \/ ~KeysValid(body)
             THEN response' = Respond(500) /\ UNCHANGED store
             ELSE IF store[id] = Undefined
             THEN response' = Respond(404) /\ UNCHANGED store
             ELSE /\ store' = [store EXCEPT ![id] = Some(Updated(Val(@), body))]
                  /\ response' = Respond(200)
    /\ UNCHANGED <<callVars, concVars, pageVars, sqlVars, connVars>>

\* part_000 lines 127-161: GET /api/invoices/:id
GET(id, dbUp) ==
    /\ requests < MaxRequests
    /\ requests' = requests + 1
    /\ LET conn == connectToDatabase(isConnected.invoice, dbUp)
       IN /\ isConnected' = [isConnected EXCEPT !.invoice = conn.isConnected]
          /\ response' = IF ~conn.ok THEN Respond(500)
                         ELSE IF id \notin ObjectIds THEN Respond(400)
                         ELSE IF ~dbUp THEN Respond(500)
                         ELSE IF store[id] = Undefined THEN Respond(404)
                         ELSE Respond(200)
    /\ UNCHANGED store
    /\ UNCHANGED <<callVars, concVars, pageVars, sqlVars, connVars>>

\* part_000 lines 206-240: DELETE /api/invoices/:id
DELETE(id, dbUp) ==
    /\ requests < MaxRequests
    /\ requests' = requests + 1
    /\ LET conn == connectToDatabase(isConnected.invoice, dbUp)
       IN /\ isConnected' = [isConnected EXCEPT !.invoice = conn.isConnected]
          /\ IF ~conn.ok
             THEN response' = Respond(500) /\ UNCHANGED store
             ELSE IF id \notin ObjectIds
             THEN response' = Respond(400) /\ UNCHANGED store
             ELSE IF ~dbUp
             THEN response' = Respond(500) /\ UNCHANGED store
             ELSE IF store[id] = Undefined
             THEN response' = Respond(404) /\ UNCHANGED store
             ELSE /\ store' = [store EXCEPT ![id] = Undefined]
                  /\ response' = Respond(200)
    /\ UNCHANGED <<callVars, concVars, pageVars, sqlVars, connVars>>

\* ci-cd-frontend.yml lines 152-157: each line item gets its amount
WithAmounts(body) ==
    IF IsDefined(body.lineItems)
    THEN [body EXCEPT !.lineItems =
            Some([i \in 1..Len(Val(@)) |->
                    [description |-> Val(@)[i].description,
                     quantity |-> Val(@)[i].quantity,
                     unitPrice |-> Val(@)[i].unitPrice,
                     amount |-> Val(@)[i].quantity * Val(@)[i].unitPrice]])]
    ELSE body

\* ci-cd-frontend.yml lines 150-188: router.put('/:id') of the Express
\* server, on the same collection.  The id is not checked beforehand: an id
\* that is no ObjectId fails the query cast (500); when the body is invalid as
\* well, either failure may be the one reported.
routerPut(id, body, dbUp) ==
    /\ requests < MaxRequests
    /\ requests' = requests + 1
    /\ LET reqBody == WithAmounts(body)
       IN IF id \notin ObjectIds \/ ~dbUp
          THEN /\ response' \in {Respond(500)} \cup
                                (IF KeysValid(reqBody) THEN {} ELSE {Respond(400)})
               /\ UNCHANGED store
          ELSE IF ~KeysValid(reqBody)
          THEN response' = Respond(400) /\ UNCHANGED store
          ELSE IF store[id] = Undefined
          THEN response' = Respond(404) /\ UNCHANGED store
          ELSE /\ store' = [store EXCEPT ![id] = Some(Updated(Val(@), reqBody))]
               /\ response' = Respond(200)
    /\ UNCHANGED isConnected
    /\ UNCHANGED <<callVars, concVars, pageVars, sqlVars, connVars>>

NextApi ==
    \/ \E body \in Bodies, dbUp \in BOOLEAN : POST(body, dbUp)
    \/ \E id \in IdStrings, body \in Bodies, dbUp \in BOOLEAN : PUT(id, body, dbUp)
    \/ \E id \in IdStrings, body \in Bodies, dbUp \in BOOLEAN : routerPut(id, body, dbUp)
    \/ \E id \in IdStrings, dbUp \in BOOLEAN : GET(id, dbUp)
    \/ \E id \in IdStrings, dbUp \in BOOLEAN : DELETE(id, dbUp)

SpecApi == InitApi /\ [][NextApi]_vars

\* ----------------------------------------------------- the invoices list page
\* invoice-actions.ts lines 413-462 (InvoicesPage, the variant whose
\* handleDelete takes the id); page.tsx lines 48-105 is the variant that asks
\* for confirmation first and disables every Delete button while isDeleting.
MaxDeletes == 2
MaxFetches == 2

DeleteIds == 1..MaxDeletes
FetchIds == 1..MaxFetches

\* the toasts of lines 428-432, 448-451 and 454-458
ErrorToast == [title |-> "Error", variant |-> "destructive"]
DeletedToast == [title |-> "Invoice Deleted", variant |-> "default"]

\* GET /api/invoices: the stored invoices, in the order of the query
StoredIds == SelectSeq(<<"65f000000000000000000001", "65f000000000000000000002">>,
                       LAMBDA id : store[id] # Undefined)

\* invoices.filter(invoice => invoice._id !== id)
WithoutId(list, id) == SelectSeq(list, LAMBDA x : x # id)

\* the invoices constant of the render whose handleDelete was called
ClosureInvoices(c) == deletes[c].invoices

Shown(list) == {list[i] : i \in 1..Len(list)}

\* the page is mounted over a collection that holds two invoices
InitList ==
    /\ NoRender
    /\ NoCalls
    /\ NoSaves
    /\ NoHandlers
    /\ store = [id \in ObjectIds |-> Some(Document(Body(Some("INV-1"), Some(200 * Money),
                                                       Undefined, Some(<<GoodItem>>))))]
    /\ isConnected = [invoices |-> TRUE, invoice |-> TRUE]
    /\ response = Undefined
    /\ requests = 0
    /\ invoices = << >>
    /\ loading = TRUE
    /\ deleting = Undefined
    /\ deletes = [c \in DeleteIds |-> [id |-> Undefined, invoices |-> << >>, pc |-> "ready"]]
    /\ fetches = [f \in FetchIds |-> "ready"]
    /\ formLineItems = << >>
    /\ isLoading = TRUE
    /\ form = Undefined
    /\ loads = << >>
    /\ toasts = << >>

editPageVars == <<formLineItems, isLoading, form, loads>>

\* lines 423-426: fetchInvoices() up to the await of axios.get
FetchInvoicesStart(f) ==
    /\ fetches[f] = "ready"
    /\ \A g \in FetchIds : g < f => fetches[g] # "ready"
    /\ fetches' = [fetches EXCEPT ![f] = "awaiting"]
    /\ loading' = TRUE
    /\ UNCHANGED <<invoices, deleting, deletes, toasts, editPageVars>>
    /\ UNCHANGED <<callVars, concVars, apiVars, sqlVars, connVars>>

\* lines 426-427 and 434-436: the request succeeded
FetchInvoicesOk(f) ==
    /\ fetches[f] = "awaiting"
    /\ fetches' = [fetches EXCEPT ![f] = "fulfilled"]
    /\ invoices' = StoredIds
    /\ loading' = FALSE
    /\ UNCHANGED <<deleting, deletes, toasts, editPageVars>>
    /\ UNCHANGED <<callVars, concVars, apiVars, sqlVars, connVars>>

\* variant: the loading flag is cleared after the assignment of the
\* response only, not in a finally block
FetchInvoicesFailedKeepsLoading(f) ==
    /\ fetches[f] = "awaiting"
    /\ fetches' = [fetches EXCEPT ![f] = "rejected"]
    /\ toasts' = Append(toasts, ErrorToast)
    /\ UNCHANGED <<invoices, loading, deleting, deletes, editPageVars>>
    /\ UNCHANGED <<callVars, concVars, apiVars, sqlVars, connVars>>

\* lines 428-436: the request failed
FetchInvoicesFailed(f) ==
    /\ fetches[f] = "awaiting"
    /\ fetches' = [fetches EXCEPT ![f] = "rejected"]
    /\ toasts' = Append(toasts, ErrorToast)
    /\ loading' = FALSE
    /\ UNCHANGED <<invoices, deleting, deletes, editPageVars>>
    /\ UNCHANGED <<callVars, concVars, apiVars, sqlVars, connVars>>

\* lines 440-443 and 565-566: a click on the Delete button of a displayed
\* row, enabled unless deleting === invoice._id; handleDelete(id) up to the
\* await of axios.delete
HandleDeleteStart(c, id) ==
    /\ deletes[c].pc = "ready"
    /\ \A d \in DeleteIds : d < c => deletes[d].pc # "ready"
    /\ ~loading
    /\ id \in Shown(invoices)
    /\ deleting # Some(id)
    /\ deletes' = [deletes EXCEPT ![c] = [id |-> Some(id), invoices |-> invoices,
                                          pc |-> "awaiting"]]
    /\ deleting' = Some(id)
    /\ UNCHANGED <<invoices, loading, fetches, toasts, editPageVars>>
    /\ UNCHANGED <<callVars, concVars, apiVars, sqlVars, connVars>>

\* part_000 lines 206-231 and invoice-actions.ts lines 443-452, 459-461: the
\* DELETE request found the invoice and deleted it
HandleDeleteOk(c) ==
    /\ deletes[c].pc = "awaiting"
    /\ store[Val(deletes[c].id)] # Undefined
    /\ store' = [store EXCEPT ![Val(deletes[c].id)] = Undefined]
    /\ invoices' = WithoutId(ClosureInvoices(c), Val(deletes[c].id))
    /\ toasts' = Append(toasts, DeletedToast)
    /\ deleting' = Undefined
    /\ deletes' = [deletes EXCEPT ![c].pc = "succeeded"]
    /\ UNCHANGED <<loading, fetches, editPageVars>>
    /\ UNCHANGED <<isConnected, response, requests>>
    /\ UNCHANGED <<callVars, concVars, sqlVars, connVars>>

\* part_000 lines 221-239 and invoice-actions.ts lines 453-461: the DELETE
\* request was answered 404 or 500, or got no answer
HandleDeleteFailed(c) ==
    /\ deletes[c].pc = "awaiting"
    /\ toasts' = Append(toasts, ErrorToast)
    /\ deleting' = Undefined
    /\ deletes' = [deletes EXCEPT ![c].pc = "failed"]
    /\ UNCHANGED <<invoices, loading, fetches, editPageVars>>
    /\ UNCHANGED <<callVars, concVars, apiVars, sqlVars, connVars>>

NextList ==
    \/ \E f \in FetchIds : FetchInvoicesStart(f)
    \/ \E f \in FetchIds : FetchInvoicesOk(f)
    \/ \E f \in FetchIds : FetchInvoicesFailed(f)
    \/ \E c \in DeleteIds, id \in ObjectIds : HandleDeleteStart(c, id)
    \/ \E c \in DeleteIds : HandleDeleteOk(c)
    \/ \E c \in DeleteIds : HandleDeleteFailed(c)

SpecList == InitList /\ [][NextList]_vars

\* ------------------------------------- handlers inside connectToDatabase
\* part_000 lines 5-33 (the [id] route module) and 246-276 (the collection
\* route module): each module has its own isConnected flag; a handler awaits
\* mongoose.connect and then countDocuments, and other handlers run meanwhile.
MaxHandlers == 3

HandlerIds == 1..MaxHandlers
RouteModules == {"invoices", "invoice"}

InitConnect ==
    /\ NoRender
    /\ NoCalls
    /\ NoPages
    /\ NoSaves
    /\ store = [id \in ObjectIds |-> Undefined]
    /\ isConnected = [invoices |-> FALSE, invoice |-> FALSE]
    /\ response = Undefined
    /\ requests = 0
    /\ handlers = [h \in HandlerIds |-> [module |-> "invoices", pc |-> "ready",
                                         status |-> Undefined]]
    /\ connects = << >>

\* the mongoose.connect call made by handler h
ConnectOf(h) == CHOOSE i \in 1..Len(connects) : connects[i].by = h

\* lines 7-14 and 248-262: a handler calls connectToDatabase(); the flag is
\* read, and when it is false mongoose.connect is called and awaited
EnterConnect(h, module) ==
    /\ handlers[h].pc = "ready"
    /\ \A g \in HandlerIds : g < h => handlers[g].pc # "ready"
    /\ IF isConnected[module]
       THEN /\ handlers' = [handlers EXCEPT ![h] = [module |-> module, pc |-> "returned",
                                                   status |-> Undefined]]
            /\ UNCHANGED connects
       ELSE /\ handlers' = [handlers EXCEPT ![h] = [module |-> module, pc |-> "connecting",
                                                   status |-> Undefined]]
            /\ connects' = Append(connects, [module |-> module, by |-> h,
                                             outcome |-> "pending"])
    /\ UNCHANGED <<callVars, concVars, apiVars, pageVars, sqlVars>>

\* lines 14-26 and 262-269: mongoose.connect resolved; the flag is set and
\* countDocuments is awaited (the Invoice model exists since module load)
ConnectResolved(h) ==
    /\ handlers[h].pc = "connecting"
    /\ isConnected' = [isConnected EXCEPT ![handlers[h].module] = TRUE]
    /\ connects' = [connects EXCEPT ![ConnectOf(h)].outcome = "connected"]
    /\ handlers' = [handlers EXCEPT ![h].pc = "counting"]
    /\ UNCHANGED <<store, response, requests>>
    /\ UNCHANGED <<callVars, concVars, pageVars, sqlVars>>

\* lines 29-32 and 272-275: mongoose.connect rejected; connectToDatabase
\* throws and the handler's catch answers 500
ConnectRejected(h) ==
    /\ handlers[h].pc = "connecting"
    /\ connects' = [connects EXCEPT ![ConnectOf(h)].outcome = "failed"]
    /\ handlers' = [handlers EXCEPT ![h].pc = "answered", ![h].status = Some(500)]
    /\ UNCHANGED <<callVars, concVars, apiVars, pageVars, sqlVars>>

\* lines 25-27 and 268-270: countDocuments resolved; connectToDatabase returns
CountResolved(h) ==
    /\ handlers[h].pc = "counting"
    /\ handlers' = [handlers EXCEPT ![h].pc = "returned"]
    /\ UNCHANGED connects
    /\ UNCHANGED <<callVars, concVars, apiVars, pageVars, sqlVars>>

\* lines 25-32 and 268-275: countDocuments rejected after the flag was set;
\* connectToDatabase throws and the handler's catch answers 500
CountRejected(h) ==
    /\ handlers[h].pc = "counting"
    /\ connects' = [connects EXCEPT ![ConnectOf(h)].outcome = "failed"]
    /\ handlers' = [handlers EXCEPT ![h].pc = "answered", ![h].status = Some(500)]
    /\ UNCHANGED <<callVars, concVars, apiVars, pageVars, sqlVars>>

NextConnect ==
    \/ \E h \in HandlerIds, module \in RouteModules : EnterConnect(h, module)
    \/ \E h \in HandlerIds : ConnectResolved(h)
    \/ \E h \in HandlerIds : ConnectRejected(h)
    \/ \E h \in HandlerIds : CountResolved(h)
    \/ \E h \in HandlerIds : CountRejected(h)

SpecConnect == InitConnect /\ [][NextConnect]_vars

\* ------------------------------------------------------------ the edit page
\* edit/[id]/page.tsx lines 30-109 (EditInvoicePage); page.tsx lines 305-351
\* is the same component with setValue per key in place of reset.
MaxLoads == 2
MaxFormItems == 3

LoadIds == 1..MaxLoads

\* params.id: the page edits the first invoice
EditedId == "65f000000000000000000001"

\* line 34, 93: the item a new row starts with
EmptyItem == [description |-> "", quantity |-> 1, unitPrice |-> 0]

\* lines 96-100: removeLineItem(index), on a 1-based index
removeLineItem(items, index) ==
    IF Len(items) > 1
    THEN [i \in 1..(Len(items) - 1) |-> IF i < index THEN items[i] ELSE items[i + 1]]
    ELSE items

\* lines 102-109: updateLineItem(index, field, value); Number(value) for
\* the numeric fields
updateLineItem(items, index, field, value) ==
    [items EXCEPT ![index] = [@ EXCEPT ![field] = value]]

\* what the user types into a field
FieldValues == [description |-> {"Design"}, quantity |-> {2}]

\* the bodies other clients send to PUT /api/invoices/:id meanwhile
OtherClientBodies ==
    { Body(Undefined, Undefined, Some("sent"), Undefined),
      Body(Undefined, Undefined, Undefined, Some(<< >>)) }

\* lines 62-75: the values reset() puts into the form
FormOf(invoice) ==
    [invoiceNumber |-> invoice.invoiceNumber,
     status |-> IF invoice.status = "" THEN "draft" ELSE invoice.status,
     totalAmount |-> invoice.totalAmount]

\* the page is mounted for an invoice created through POST /api/invoices
InitEdit ==
    /\ NoRender
    /\ NoCalls
    /\ NoSaves
    /\ NoHandlers
    /\ store = [id \in ObjectIds |->
                  IF id = EditedId
                  THEN Some(Document(ZodData(Body(Some("INV-2"), Some(200 * Money), Some("paid"),
                                                  Some(<<GoodItem, GoodItem>>)))))
                  ELSE Undefined]
    /\ isConnected = [invoices |-> TRUE, invoice |-> TRUE]
    /\ response = Undefined
    /\ requests = 0
    /\ invoices = << >>
    /\ loading = TRUE
    /\ deleting = Undefined
    /\ deletes = << >>
    /\ fetches = << >>
    /\ formLineItems = <<EmptyItem>>
    /\ isLoading = TRUE
    /\ form = Undefined
    /\ loads = [l \in LoadIds |-> "ready"]
    /\ toasts = << >>

listPageVars == <<invoices, loading, deleting, deletes, fetches>>

\* lines 46-53: the effect calls fetchInvoice(), which runs up to the await
\* of axios.get
FetchInvoiceStart(l) ==
    /\ loads[l] = "ready"
    /\ \A k \in LoadIds : k < l => loads[k] # "ready"
    /\ loads' = [loads EXCEPT ![l] = "awaiting"]
    /\ isLoading' = TRUE
    /\ UNCHANGED <<formLineItems, form, toasts, listPageVars>>
    /\ UNCHANGED <<callVars, concVars, apiVars, sqlVars, connVars>>

\* part_000 lines 127-152 and page.tsx lines 53-78, 86-88: GET answered 200
\* with the stored invoice; invoice.lineItems is an array, hence truthy
FetchInvoiceOk(l) ==
    /\ loads[l] = "awaiting"
    /\ store[EditedId] # Undefined
    /\ loads' = [loads EXCEPT ![l] = "fulfilled"]
    /\ form' = Some(FormOf(Val(store[EditedId])))
    /\ formLineItems' = Val(store[EditedId]).lineItems
    /\ isLoading' = FALSE
    /\ UNCHANGED <<toasts, listPageVars>>
    /\ UNCHANGED <<callVars, concVars, apiVars, sqlVars, connVars>>

\* lines 79-88: the request failed
FetchInvoiceFailed(l) ==
    /\ loads[l] = "awaiting"
    /\ loads' = [loads EXCEPT ![l] = "rejected"]
    /\ toasts' = Append(toasts, ErrorToast)
    /\ isLoading' = FALSE
    /\ UNCHANGED <<formLineItems, form, listPageVars>>
    /\ UNCHANGED <<callVars, concVars, apiVars, sqlVars, connVars>>

\* lines 92-94 and 375: a click on Add Item
AddLineItem ==
    /\ ~isLoading
    /\ Len(formLineItems) < MaxFormItems
    /\ formLineItems' = Append(formLineItems, EmptyItem)
    /\ UNCHANGED <<isLoading, form, loads, toasts, listPageVars>>
    /\ UNCHANGED <<callVars, concVars, apiVars, sqlVars, connVars>>

\* lines 96-100 and 428: removeLineItem(index) for a row of the list
RemoveLineItem(index) ==
    /\ ~isLoading
    /\ index \in 1..Len(formLineItems)
    /\ formLineItems' = removeLineItem(formLineItems, index)
    /\ UNCHANGED <<isLoading, form, loads, toasts, listPageVars>>
    /\ UNCHANGED <<callVars, concVars, apiVars, sqlVars, connVars>>

\* lines 102-109 and 392-418: an input of a row changed
UpdateLineItem(index, field) ==
    /\ ~isLoading
    /\ index \in 1..Len(formLineItems)
    /\ \E value \in FieldValues[field] :
          formLineItems' = updateLineItem(formLineItems, index, field, value)
    /\ UNCHANGED <<isLoading, form, loads, toasts, listPageVars>>
    /\ UNCHANGED <<callVars, concVars, apiVars, sqlVars, connVars>>

\* the requests other clients make meanwhile are those of PUT
NextEdit ==
    \/ \E l \in LoadIds : FetchInvoiceStart(l)
    \/ \E l \in LoadIds : FetchInvoiceOk(l)
    \/ \E l \in LoadIds : FetchInvoiceFailed(l)
    \/ AddLineItem
    \/ \E index \in 1..MaxFormItems : RemoveLineItem(index)
    \/ \E index \in 1..MaxFormItems, field \in DOMAIN FieldValues :
          UpdateLineItem(index, field)
    \/ \E body \in OtherClientBodies : PUT(EditedId, body, TRUE)

SpecEdit == InitEdit /\ [][NextEdit]_vars

\* ------------------------------------------- the server action saveInvoice
\* invoice-actions.ts lines 21-117, over the tables of format-utils.ts lines
\* 20-62 (schema.ts).  Money values of a request are in 1/10000, the decimal
\* columns hold cents.
MaxSaves == 2

ThirdsItem == [description |-> "Thirds", quantity |-> 3, unitPrice |-> 3330]

\* what the client passes to saveInvoice
SaveInputs ==
    { Body(Some("INV-1"), Some(200 * Money), Undefined, Some(<<GoodItem>>)),
      Body(Some("INV-2"), Some(9990), Some("paid"), Some(<<GoodItem, ThirdsItem>>)),
      Body(Some("INV-4"), Some(200 * Money), Undefined, Some(<< >>)),
      Body(Some("INV-7"), Some(200 * Money), Undefined, Some(<<FreeItem>>)),
      Body(Undefined, Undefined, Some("sent"), Undefined) }

\* lines 21-25: lineItemSchemaInternal
LineItemInternalOk(item) ==
    /\ item.description # ""
    /\ item.quantity > 0
    /\ item.unitPrice > 0

\* lines 27-44 and 50: invoiceFormSchema.safeParse(inputData).success
SafeParseOk(input) ==
    /\ IsDefined(input.invoiceNumber) /\ Val(input.invoiceNumber) # ""
    /\ IsDefined(input.totalAmount) /\ Val(input.totalAmount) > 0
    /\ IsDefined(input.lineItems) /\ Len(Val(input.lineItems)) >= 1
    /\ \A i \in 1..Len(Val(input.lineItems)) : LineItemInternalOk(Val(input.lineItems)[i])

\* a decimal(10, 2) column: the value written is rounded to the cent
Decimal2(v) == (v + 50) \div 100

\* lines 64-79: the row inserted into invoices
InvoiceRow(id, v) ==
    [id |-> id,
     invoiceNumber |-> Val(v.invoiceNumber),
     totalAmount |-> Decimal2(Val(v.totalAmount)),
     status |-> IF IsDefined(v.status) THEN Val(v.status) ELSE "draft"]

\* lines 89-96: the rows inserted into line_items
LineItemRows(id, v) ==
    { [id |-> 10 * id + i,
       invoiceId |-> id,
       description |-> Val(v.lineItems)[i].description,
       quantity |-> Val(v.lineItems)[i].quantity,
       unitPrice |-> Decimal2(Val(v.lineItems)[i].unitPrice),
       amount |-> Decimal2(Val(v.lineItems)[i].quantity * Val(v.lineItems)[i].unitPrice)]
      : i \in 1..Len(Val(v.lineItems)) }

\* how the statements of one call go
SaveOutcomes == {"ok", "invoiceInsertFails", "noIdReturned", "lineItemsInsertFails",
                 "commitFails", "revalidateFails"}

\* lines 63-99: the callback of db.transaction: the tables as the
\* transaction sees them when the callback ends, and whether it threw
Callback(tables, id, v, outcome) ==
    IF outcome = "invoiceInsertFails"
    THEN [tables |-> tables, threw |-> TRUE]
    ELSE LET withInvoice == [tables EXCEPT !.invoices = @ \cup {InvoiceRow(id, v)}]
         IN IF outcome \in {"noIdReturned", "lineItemsInsertFails"}
            THEN [tables |-> withInvoice, threw |-> TRUE]
            ELSE [tables |-> [withInvoice EXCEPT !.lineItems = @ \cup LineItemRows(id, v)],
                  threw |-> FALSE]

\* statements run one by one, each committed on its own
transactionAutocommit(tables, work, outcome) ==
    IF outcome = "commitFails"
    THEN [tables |-> tables, threw |-> TRUE]
    ELSE [tables |-> work.tables, threw |-> work.threw]

\* line 63: db.transaction(callback): commit when the callback returns,
\* rollback when it throws or when the commit fails
transaction(tables, work, outcome) ==
    IF work.threw \/ outcome = "commitFails"
    THEN [tables |-> tables, threw |-> TRUE]
    ELSE [tables |-> work.tables, threw |-> FALSE]

\* lines 47-117: saveInvoice(inputData); yields the tables and the value
\* returned
saveInvoiceResult(tables, id, input, outcome) ==
    IF ~SafeParseOk(input)
    THEN [tables |-> tables,
          returned |-> [success |-> FALSE, message |-> Some("Invalid invoice data."),
                        invoiceId |-> Undefined]]
    ELSE LET done == transaction(tables, Callback(tables, id, input, outcome), outcome)
         IN [tables |-> done.tables,
             returned |-> IF done.threw \/ outcome = "revalidateFails"
                          THEN [success |-> FALSE, message |-> Some(outcome),
                                invoiceId |-> Undefined]
                          ELSE [success |-> TRUE, message |-> Undefined,
                                invoiceId |-> Some(id)]]

InitSave ==
    /\ NoRender
    /\ NoCalls
    /\ NoRequests
    /\ NoPages
    /\ NoHandlers
    /\ invoicesTable = {}
    /\ lineItemsTable = {}
    /\ saved = Undefined
    /\ saves = 0

\* one call of the server action; the serial id is that of the call
saveInvoice(input, outcome) ==
    /\ saves < MaxSaves
    /\ saves' = saves + 1
    /\ LET r == saveInvoiceResult([invoices |-> invoicesTable, lineItems |-> lineItemsTable],
                                  saves + 1, input, outcome)
       IN /\ invoicesTable' = r.tables.invoices
          /\ lineItemsTable' = r.tables.lineItems
          /\ saved' = Some([input |-> input, outcome |-> outcome, returned |-> r.returned])
    /\ UNCHANGED <<callVars, concVars, apiVars, pageVars, connVars>>

NextSave == \E input \in SaveInputs, outcome \in SaveOutcomes : saveInvoice(input, outcome)

SpecSave == InitSave /\ [][NextSave]_vars

\* ------------------------------------------------ records with many rows
\* part_001 lines 427-471: one table row per line item, with no page break
MaxRows == 16

ManyItems(n) == [i \in 1..n |-> FormItem("Design", 1, 1200)]

InitFit ==
    /\ \E n \in 1..MaxRows, hasTotal \in BOOLEAN :
          data = BaseRecord(ManyItems(n),
                            IF hasTotal THEN Some(reduceTotal(ManyItems(n))) ELSE Undefined,
                            <<"a", NL, "b">>)
    /\ today = [year |-> 2024, month |-> 11, date |-> 31]
    /\ tz \in TimeZones
    /\ calls = 0
    /\ edits = 0
    /\ ticks = 0
    /\ fresh = FALSE
    /\ arg = data
    /\ argFresh = FALSE
    /\ settled = "none"
    /\ out = << >>
    /\ callDate = today
    /\ prevArg = data
    /\ prevOut = << >>
    /\ prevCallDate = today
    /\ variant = "rich"
    /\ prevVariant = "rich"
    /\ last = NoCall
    /\ NoCalls
    /\ NoRequests
    /\ NoPages
    /\ NoSaves
    /\ NoHandlers

NextFit == \E outcome \in Outcomes : Render(outcome)

SpecFit == InitFit /\ [][NextFit]_vars

\* ------------------------------------ the writers of line-item amounts
\* router.post and router.put of the Express server (ci-cd-frontend.yml
\* lines 116-188) on the collection, saveInvoice on the Postgres tables

\* a line item whose amount the client supplied
ClientAmountItem == [description |-> "Consulting", quantity |-> 2, unitPrice |-> 100 * Money,
                     amount |-> 1]

\* req.body of the Express requests
ExpressBodies ==
    { Body(Some("INV-1"), Some(200 * Money), Undefined, Some(<<GoodItem>>)),
      Body(Some("INV-2"), Some(200 * Money), Some("paid"), Some(<<ClientAmountItem, ThirdsItem>>)),
      Body(Undefined, Undefined, Undefined, Some(<<ClientAmountItem>>)),
      Body(Undefined, Undefined, Some("sent"), Undefined),
      Body(Some("INV-5"), Some(200 * Money), Undefined, Some(<<GoodItem, ZeroQuantityItem>>)) }

\* ci-cd-frontend.yml lines 117-147: router.post('/'); save() validates the
\* document before it writes
routerPost(body, dbUp) ==
    /\ requests < MaxRequests
    /\ requests' = requests + 1
    /\ LET reqBody == WithAmounts(body)
       IN IF ~DocumentValid(reqBody)
          THEN response' = Respond(400) /\ UNCHANGED store
          ELSE IF ~dbUp \/ FreeIds = {}
          THEN response' = Respond(500) /\ UNCHANGED store
          ELSE /\ store' = [store EXCEPT ![NewId] = Some(Document(reqBody))]
               /\ response' = Respond(201)
    /\ UNCHANGED isConnected
    /\ UNCHANGED <<callVars, concVars, pageVars, sqlVars, connVars>>

InitAmounts ==
    /\ NoRender
    /\ NoCalls
    /\ NoPages
    /\ NoHandlers
    /\ store = [id \in ObjectIds |-> Undefined]
    /\ isConnected = [invoices |-> FALSE, invoice |-> FALSE]
    /\ response = Undefined
    /\ requests = 0
    /\ invoicesTable = {}
    /\ lineItemsTable = {}
    /\ saved = Undefined
    /\ saves = 0

NextAmounts ==
    \/ \E body \in ExpressBodies, dbUp \in BOOLEAN : routerPost(body, dbUp)
    \/ \E id \in ObjectIds, body \in ExpressBodies, dbUp \in BOOLEAN : routerPut(id, body, dbUp)
    \/ \E input \in SaveInputs, outcome \in SaveOutcomes : saveInvoice(input, outcome)

SpecAmounts == InitAmounts /\ [][NextAmounts]_vars

\* ------------------------------------------- the loading flags of the pages
\* the list page and the edit page, each mounted, with the fetches they make

InitLoading ==
    /\ NoRender
    /\ NoCalls
    /\ NoSaves
    /\ NoHandlers
    /\ store = [id \in ObjectIds |-> Some(Document(Body(Some("INV-1"), Some(200 * Money),
                                                       Undefined, Some(<<GoodItem>>))))]
    /\ isConnected = [invoices |-> TRUE, invoice |-> TRUE]
    /\ response = Undefined
    /\ requests = 0
    /\ invoices = << >>
    /\ loading = TRUE
    /\ deleting = Undefined
    /\ deletes = [c \in DeleteIds |-> [id |-> Undefined, invoices |-> << >>, pc |-> "ready"]]
    /\ fetches = [f \in FetchIds |-> "ready"]
    /\ formLineItems = <<EmptyItem>>
    /\ isLoading = TRUE
    /\ form = Undefined
    /\ loads = [l \in LoadIds |-> "ready"]
    /\ toasts = << >>

NextLoading ==
    \/ \E f \in FetchIds : FetchInvoicesStart(f)
    \/ \E f \in FetchIds : FetchInvoicesOk(f)
    \/ \E f \in FetchIds : FetchInvoicesFailed(f)
    \/ \E l \in LoadIds : FetchInvoiceStart(l)
    \/ \E l \in LoadIds : FetchInvoiceOk(l)
    \/ \E l \in LoadIds : FetchInvoiceFailed(l)

\* a request that was sent is answered or fails: the awaited promise settles
SpecLoading ==
    /\ InitLoading
    /\ [][NextLoading]_vars
    /\ \A f \in FetchIds : WF_vars(FetchInvoicesOk(f) \/ FetchInvoicesFailed(f))
    /\ \A l \in LoadIds : WF_vars(FetchInvoiceOk(l) \/ FetchInvoiceFailed(l))

TypeOK ==
    /\ calls \in 0..MaxCalls
    /\ settled \in {"none", "fulfilled", "rejected"}
    /\ Len(data.lineItems) >= 1

\* ------------------------------------------------- reading a page content
IsText(p) == p.kind = "text"

\* position of the text primitive that is exactly the given label
IndexOfLabel(prims, label) ==
    CHOOSE i \in 1..Len(prims) : IsText(prims[i]) /\ prims[i].text = <<Str(label)>>

\* the amount, in cents, printed by the value text that follows a label
CentsAfterLabel(prims, label) == prims[IndexOfLabel(prims, label) + 1].text[2].cents

\* the texts of the fourth (Amount) column, top to bottom: the column label,
\* one amount per row, then the subtotal, tax and grand-total values
AmountColumn(prims) == SelectSeq(prims, LAMBDA p : IsText(p) /\ p.x = 490 * U)

\* sum of quantity * unitPrice over the items, in cents
RECURSIVE SumOfProducts(_)
SumOfProducts(items) ==
    IF items = << >> THEN 0
    ELSE (Head(items).quantity * Head(items).unitPrice) \div 100 + SumOfProducts(Tail(items))

\* cents is the value hundredths / 100 of a cent count, to the nearest cent
NearestCent(cents, hundredths) ==
    /\ 100 * cents - hundredths <= 50
    /\ hundredths - 100 * cents <= 50

\* ----------------------------------------------------------------- claims

\* C1 (as stated): in every completed render the subtotal printed in the
\* totals block is the sum of quantity * unitPrice over the line items of the
\* record that was rendered, whether or not the record carried a totalAmount
\* and also for a render made after the line items were changed.
C1_SubtotalIsSumOfLineItems ==
    settled = "fulfilled" =>
        CentsAfterLabel(out, "Subtotal:") = SumOfProducts(arg.lineItems)

\* C2 (as stated): a call of generateInvoice, completed or failed, leaves
\* every field of the record passed in as it was before the call.
C2_RecordUnchangedByRender ==
    [][calls' = calls + 1 => data' = data]_vars

\* C3 (as stated): two successive renders of a record the caller did not
\* change emit identical primitive sequences, whenever they run.
C3_RendersIdentical ==
    (calls >= 2 /\ argFresh /\ settled = "fulfilled" /\ prevOut # << >>) =>
        out = prevOut

\* the footer's "Invoice generated on <date>" text
IsGeneratedOn(p) == IsText(p) /\ Head(p.text) = Str("Invoice generated on ")

SameButText(p, q) == IsText(p) /\ IsText(q) /\ [p EXCEPT !.text = q.text] = q

\* C3 (amended): two successive renders of a record the caller did not change
\* emit sequences of the same length that agree primitive by primitive,
\* except that the text of the "Invoice generated on" footer line may differ;
\* when both renders run on the same local calendar date the sequences are
\* identical.
C3_RendersIdenticalUpToGenerationDate ==
    (calls >= 2 /\ argFresh /\ settled = "fulfilled" /\ prevOut # << >>) =>
        /\ Len(out) = Len(prevOut)
        /\ \A i \in 1..Len(out) :
              \/ out[i] = prevOut[i]
              \/ IsGeneratedOn(out[i]) /\ IsGeneratedOn(prevOut[i]) /\ SameButText(out[i], prevOut[i])
        /\ callDate = prevCallDate => out = prevOut

\* a record whose totalAmount the first render filled in, rendered again
\* unchanged on a later date
C3_Witness ==
    /\ calls >= 2 /\ argFresh /\ settled = "fulfilled" /\ prevOut # << >>
    /\ prevArg.totalAmount = Undefined
    /\ callDate # prevCallDate

\* C4: in every completed render the tax printed is the printed subtotal
\* times 0.05 and the grand total printed is the printed subtotal times 1.05,
\* each to the nearest cent; the tax line is labelled "Tax (5%):" and lies
\* between the subtotal line and the grand-total row.
C4_TaxAndGrandTotal ==
    settled = "fulfilled" =>
        LET s == IndexOfLabel(out, "Subtotal:")
            subtotal == out[s + 1].text[2].cents
            tax == out[s + 3].text[2].cents
            total == out[s + 6].text[2].cents
        IN /\ out[s + 2].text = <<Str("Tax (5%):")>>
           /\ out[s + 4].kind = "rect"
           /\ out[s + 5].text = <<Str("TOTAL:")>>
           /\ NearestCent(tax, subtotal * 5)
           /\ NearestCent(total, subtotal * 105)
           /\ out[s + 1].y > out[s + 3].y /\ out[s + 3].y > out[s + 6].y
           /\ out[s + 2].y = out[s + 3].y

\* a render whose printed tax is not zero and needed rounding
C4_Witness ==
    /\ settled = "fulfilled"
    /\ CentsAfterLabel(out, "Tax (5%):") > 0
    /\ (CentsAfterLabel(out, "Subtotal:") * 5) % 100 # 0

\* C5: in every completed render the amount printed in the row of each line
\* item is quantity * unitPrice of that item; an amount field carried by the
\* item has no influence.
C5_RowAmountRecomputed ==
    settled = "fulfilled" =>
        LET column == AmountColumn(out)
        IN /\ Len(column) = Len(arg.lineItems) + 4
           /\ \A k \in 1..Len(arg.lineItems) :
                 /\ column[k + 1].text =
                      <<Str("$"), [cents |-> (arg.lineItems[k].quantity * arg.lineItems[k].unitPrice) \div 100]>>
                 /\ column[k + 1].y = tableTop - 45 * U - (k - 1) * 25 * U

\* a rendered record with an item whose persisted amount is stale
C5_Witness ==
    /\ settled = "fulfilled"
    /\ \E k \in 1..Len(arg.lineItems) :
          /\ IsDefined(arg.lineItems[k].amount)
          /\ Val(arg.lineItems[k].amount) # arg.lineItems[k].quantity * arg.lineItems[k].unitPrice

\* number of lines of a text: one more than its line breaks
NumLines(s) == 1 + Cardinality({i \in 1..Len(s) : s[i] = NL})

BothFulfilled == calls >= 2 /\ settled = "fulfilled" /\ prevOut # << >>

\* the latest record is the previous one with one more line in the field
OneMoreLine(field) ==
    /\ NumLines(arg[field]) = NumLines(prevArg[field]) + 1
    /\ [arg EXCEPT ![field] = prevArg[field], !.totalAmount = prevArg.totalAmount] = prevArg

FirstLine(prims) == prims[CHOOSE i \in 1..Len(prims) : prims[i].kind = "line" /\
                            \A j \in 1..(i - 1) : prims[j].kind # "line"]

FirstBorderedRectAfter(prims, label) ==
    prims[CHOOSE i \in 1..Len(prims) : /\ i > IndexOfLabel(prims, label)
                                        /\ prims[i].kind = "rect"
                                        /\ \A j \in (IndexOfLabel(prims, label) + 1)..(i - 1) :
                                               prims[j].kind # "rect"]

LabelY(prims, label) == prims[IndexOfLabel(prims, label)].y

\* C6 (as stated): one more line in the company address (or in the client
\* address) moves every block drawn below that address down by exactly 15
\* units: the header divider and the client block (company address only), the
\* line-item table and the totals block.
C6_BlocksBelowShiftByLineHeight ==
    BothFulfilled =>
        /\ OneMoreLine("companyAddress") =>
              /\ FirstLine(out).y = FirstLine(prevOut).y - 15 * U
              /\ LabelY(out, "BILL TO:") = LabelY(prevOut, "BILL TO:") - 15 * U
              /\ LabelY(out, "Description") = LabelY(prevOut, "Description") - 15 * U
              /\ LabelY(out, "Subtotal:") = LabelY(prevOut, "Subtotal:") - 15 * U
        /\ OneMoreLine("clientAddress") =>
              /\ LabelY(out, "Description") = LabelY(prevOut, "Description") - 15 * U
              /\ LabelY(out, "Subtotal:") = LabelY(prevOut, "Subtotal:") - 15 * U

\* L stacked lines from position first on, then the email line
Stacked(prims, first, L, baseY) ==
    /\ \A i \in 0..(L - 1) :
          /\ IsText(prims[first + i])
          /\ prims[first + i].x = 50 * U
          /\ prims[first + i].y = baseY - 15 * U * i
    /\ IsText(prims[first + L])
    /\ Head(prims[first + L].text) = Str("Email: ")
    /\ prims[first + L].y = baseY - 15 * U * L

\* C7: for an address of L lines, line i (from 0) is drawn at baseY - 15 i,
\* the email line after it at baseY - 15 L and, in the company block, the
\* phone line at baseY - 15 L - 15; baseY is height - 110 for the company
\* block and height - 215 for the client block.
C7_AddressStacking ==
    settled = "fulfilled" =>
        LET Lc == NumLines(arg.companyAddress)
            c == IndexOfLabel(out, "INVOICE") + 2
            Lb == NumLines(arg.clientAddress)
            b == IndexOfLabel(out, "BILL TO:") + 2
        IN /\ Stacked(out, c, Lc, pageHeight - 110 * U)
           /\ Head(out[c + Lc + 1].text) = Str("Phone: ")
           /\ out[c + Lc + 1].y = pageHeight - 110 * U - 15 * U * Lc - 15 * U
           /\ Stacked(out, b, Lb, pageHeight - 215 * U)
           /\ Lc = 3 => /\ out[c + 3].y = pageHeight - 110 * U - 45 * U
                        /\ out[c + 4].y = pageHeight - 110 * U - 60 * U

\* a render of a three-line company address
C7_Witness ==
    /\ settled = "fulfilled"
    /\ NumLines(arg.companyAddress) = 3
    /\ out[IndexOfLabel(out, "INVOICE") + 5].y = pageHeight - 155 * U

\* the spellings of "paid" among the statuses, and each status in upper case
PaidSpellings == { <<"p","a","i","d">>, <<"P","A","I","D">>, <<"p","A","i","D">> }

UpperCased(s) ==
    CASE s \in PaidSpellings -> <<"P","A","I","D">>
      [] s = <<"d","r","a","f","t">> -> <<"D","R","A","F","T">>
      [] s = <<"s","e","n","t">> -> <<"S","E","N","T">>
      [] s = <<"o","v","e","r","d","u","e">> -> <<"O","V","E","R","D","U","E">>
      [] s = <<"c","a","n","c","e","l","l","e","d">> -> <<"C","A","N","C","E","L","L","E","D">>

\* C8: a status that spells "paid" in any letter case gets the green badge
\* fill, each of draft, sent, overdue and cancelled gets the red one, and the
\* badge label is the status in upper case.
C8_StatusBadge ==
    (settled = "fulfilled" /\ IsDefined(arg.status)) =>
        LET i == IndexOfLabel(out, "Status:")
            st == Val(arg.status)
        IN /\ out[i + 1].kind = "rect"
           /\ out[i + 1].color = IF st \in PaidSpellings THEN rgb(20, 70, 20) ELSE rgb(80, 20, 20)
           /\ out[i + 2].text = <<Chars(UpperCased(st))>>

\* a render of a record whose status is "pAiD"
C8_Witness ==
    /\ settled = "fulfilled"
    /\ arg.status = Some(<<"p","A","i","D">>)
    /\ out[IndexOfLabel(out, "Status:") + 1].color = rgb(20, 70, 20)

\* positions of the light row-background rectangles
BandIndexes(prims) ==
    {i \in 1..Len(prims) : prims[i].kind = "rect" /\ prims[i].color = rgb(97, 97, 97)}

RowY(k) == tableTop - 45 * U - 25 * U * k

\* C9: the rows with a light background rectangle are exactly the rows of
\* even zero-based index, and a row's rectangle comes right before the four
\* cell texts of that row.
C9_RowBanding ==
    settled = "fulfilled" =>
        LET N == Len(arg.lineItems)
        IN /\ {out[i].y : i \in BandIndexes(out)} = {RowY(k) - 10 * U : k \in {j \in 0..(N - 1) : j % 2 = 0}}
           /\ Cardinality(BandIndexes(out)) = Cardinality({j \in 0..(N - 1) : j % 2 = 0})
           /\ \A i \in BandIndexes(out) :
                 \A c \in 1..4 : IsText(out[i + c]) /\ out[i + c].y = out[i].y + 10 * U
           /\ \A k \in 0..(N - 1) :
                 Cardinality({i \in 1..Len(out) : IsText(out[i]) /\ out[i].y = RowY(k)}) = 4

\* a render of three line items
C9_Witness ==
    /\ settled = "fulfilled"
    /\ Len(arg.lineItems) >= 3
    /\ Cardinality(BandIndexes(out)) >= 2

\* the region a primitive belongs to, by the draw call that emitted it: the
\* source draws region after region, each introduced by a comment
Region(p) ==
    IF p.at <= 245 THEN 1
    ELSE IF p.at <= 280 THEN 2
    ELSE IF p.at <= 337 THEN 3
    ELSE IF p.at <= 344 THEN 4
    ELSE IF p.at <= 379 THEN 5
    ELSE IF p.at <= 471 THEN 6
    ELSE IF p.at <= 542 THEN 7
    ELSE IF p.at <= 613 THEN 8
    ELSE 9

\* the description cells of the table rows, in emission order
Descriptions(prims, N) ==
    SelectSeq(prims, LAMBDA p : IsText(p) /\ p.x = 60 * U /\ p.y <= RowY(0) /\ p.y > RowY(N))

\* C10: the primitives are emitted region by region: header band (rectangle,
\* then title), company block, invoice-meta block, header divider, client
\* block, line-item table (header row, then the rows in input order), totals
\* (subtotal, tax, grand total), [payment information,] footer.
C10_RegionOrder ==
    settled = "fulfilled" =>
        LET n == Len(out)
            N == Len(arg.lineItems)
            regions == [i \in 1..n |-> Region(out[i])]
            title == IndexOfLabel(out, "INVOICE")
            billTo == IndexOfLabel(out, "BILL TO:")
            amount == IndexOfLabel(out, "Amount")
            subtotalAt == IndexOfLabel(out, "Subtotal:")
            taxAt == IndexOfLabel(out, "Tax (5%):")
            totalAt == IndexOfLabel(out, "TOTAL:")
            cells == Descriptions(out, N)
        IN /\ \A i \in 1..(n - 1) : regions[i] <= regions[i + 1]
           /\ {regions[i] : i \in 1..n} = 1..9
           /\ out[1].kind = "rect" /\ out[1].y = pageHeight - 80 * U
           /\ title = 2 /\ regions[1] = 1 /\ regions[2] = 1 /\ regions[3] = 2
           /\ regions[IndexOfLabel(out, "Status:")] = 3
           /\ FirstLine(out).at = 339
           /\ regions[billTo] = 5
           /\ regions[amount] = 6
           /\ Len(cells) = N
           /\ \A k \in 1..N :
                 /\ cells[k].text = <<Str(arg.lineItems[k].description)>>
                 /\ cells[k].y = RowY(k - 1)
                 /\ Region(cells[k]) = 6
           /\ \A i \in 1..amount : ~(IsText(out[i]) /\ out[i].x = 60 * U
                                       /\ out[i].y <= RowY(0) /\ out[i].y > RowY(N))
           /\ regions[subtotalAt] = 7
           /\ subtotalAt < taxAt /\ taxAt < totalAt
           /\ regions[totalAt] = 7
           /\ out[n].text = <<Str("Payment terms: Due within 30 days of issue")>>
           /\ regions[n] = 9

\* a render of several line items with distinct descriptions
C10_Witness ==
    /\ settled = "fulfilled"
    /\ Len(arg.lineItems) >= 2
    /\ arg.lineItems[1].description # arg.lineItems[2].description

\* the point (x, y) lies inside the rectangle r, borders included
Inside(x, y, r) ==
    /\ r.x <= x /\ x <= r.x + r.width
    /\ r.y <= y /\ y <= r.y + r.height

\* C11: in every completed render the filled badge rectangle (x from
\* width - 150 to width - 80, y from height - 145 to height - 127) is emitted
\* right after the "Status:" label and right before the status text, the
\* text's anchor (width - 145, height - 135) lies inside the rectangle, and no
\* rectangle emitted later covers that anchor.
C11_StatusLabelOverlaysBadge ==
    (settled = "fulfilled" /\ variant = "rich") =>
        LET i == IndexOfLabel(out, "Status:")
            badge == out[i + 1]
            label == out[i + 2]
        IN /\ badge.kind = "rect"
           /\ badge.x = pageWidth - 150 * U /\ badge.x + badge.width = pageWidth - 80 * U
           /\ badge.y = pageHeight - 145 * U /\ badge.y + badge.height = pageHeight - 127 * U
           /\ IsText(label)
           /\ label.text \in {<<Chars(UpperCased(st))>> : st \in Statuses} \cup {<<Chars(Unpaid)>>}
           /\ label.x = pageWidth - 145 * U /\ label.y = pageHeight - 135 * U
           /\ Inside(label.x, label.y, badge)
           /\ \A j \in (i + 3)..Len(out) :
                 out[j].kind = "rect" => ~Inside(label.x, label.y, out[j])
           /\ \A j \in 1..i : ~(IsText(out[j]) /\ out[j].text = label.text)

\* a render of a record without status: the badge carries the label UNPAID
C11_Witness ==
    /\ settled = "fulfilled" /\ variant = "rich"
    /\ arg.status = Undefined
    /\ out[IndexOfLabel(out, "Status:") + 2].text = <<Chars(Unpaid)>>
    /\ out[IndexOfLabel(out, "Status:") + 1].kind = "rect"

\* number of decimal digits of a natural number
RECURSIVE NumDigits(_)
NumDigits(n) == IF n < 10 THEN 1 ELSE 1 + NumDigits(n \div 10)

\* advance width of a numeric text in Helvetica, per unit of font size, in
\* hundredths of a point: a digit and "$" are 0.556 em wide, "." 0.278 em
PartWidth(part) ==
    IF "cents" \in DOMAIN part THEN 556 * (NumDigits(part.cents \div 100) + 2) + 278
    ELSE IF "int" \in DOMAIN part THEN 556 * NumDigits(part.int)
    ELSE 556 * (IF part = Str("$") THEN 1 ELSE 0)

RECURSIVE TextWidthPerSize(_)
TextWidthPerSize(text) ==
    IF text = << >> THEN 0 ELSE PartWidth(Head(text)) + TextWidthPerSize(Tail(text))

\* where a drawn text ends: its x plus its width at its font size
RightEnd(p) == p.x + (TextWidthPerSize(p.text) * p.size) \div 10

\* the four cell texts of row k, in emission order
RowCells(prims, k) == SelectSeq(prims, LAMBDA p : IsText(p) /\ p.y = RowY(k))

\* C12 (as stated): in every completed render the description cells share
\* one left edge, and in each of the quantity, unit-price and amount columns
\* the cell texts of all rows end at one common right edge, so that the x of
\* a numeric cell depends on the width of its text.
C12_NumericCellsRightAligned ==
    (settled = "fulfilled" /\ variant = "rich") =>
        \A k, l \in 0..(Len(arg.lineItems) - 1) :
            /\ RowCells(out, k)[1].x = RowCells(out, l)[1].x
            /\ \A c \in 2..4 : RightEnd(RowCells(out, k)[c]) = RightEnd(RowCells(out, l)[c])

\* the text primitive that starts with the given label
TextStarting(prims, label) ==
    prims[CHOOSE i \in 1..Len(prims) : IsText(prims[i]) /\ Head(prims[i].text) = Str(label)]

\* "<FullMonthName> <Day>, <Year>" of the calendar date written in a date string
WrittenDate(dateString) ==
    << Str(<<"January", "February", "March", "April", "May", "June", "July", "August",
             "September", "October", "November", "December">>[dateString.month]),
       Str(" "), [int |-> dateString.day], Str(", "), [int |-> dateString.year] >>

\* C13 (as stated): the dates printed by a completed render, which are
\* formatDate of the record's invoiceDate and dueDate, name exactly the month,
\* day and year written in those date strings, whatever the timezone offset
\* of the process.
C13_FormatDateNamesWrittenDate ==
    settled = "fulfilled" =>
        /\ TextStarting(out, "Date: ").text = <<Str("Date: ")>> \o WrittenDate(arg.invoiceDate)
        /\ TextStarting(out, "Due Date: ").text = <<Str("Due Date: ")>> \o WrittenDate(arg.dueDate)

\* notes that are absent or the empty string
NoNotes(n) == n = Undefined \/ n = Some(<< >>)

\* the two latest completed renders were made by the same variant, of records
\* that differ in their notes at most
SameButNotes ==
    /\ BothFulfilled /\ variant = prevVariant
    /\ [arg EXCEPT !.notes = prevArg.notes] = prevArg

\* C14: a completed render of a record whose notes are absent or empty has
\* no "NOTES:" label and no note line; in the simple variant the total value
\* is followed by the closing line at y = 50 alone and the cursor ends where
\* the totals block left it; in the rich variant the payment-information
\* block follows the totals; and two renders of records that differ only in
\* having absent or empty notes are identical.
C14_NoNotesBlockWithoutNotes ==
    (settled = "fulfilled" /\ NoNotes(arg.notes)) =>
        LET N == Len(arg.lineItems)
        IN /\ \A i \in 1..Len(out) : ~(IsText(out[i]) /\ out[i].text = <<Str("NOTES:")>>)
           /\ variant = "simple" =>
                 LET t == IndexOfLabel(out, "Total:")
                 IN /\ Len(out) = t + 2
                    /\ out[t + 2].text = <<Str("Thank you for your business!")>>
                    /\ out[t + 2].y = 50 * U
                    /\ last.outcome = "ok" =>
                          Val(last.yPosition) = tableTop - 45 * U - 25 * U * N - 5 * U - 30 * U
           /\ variant = "rich" =>
                 LET t == IndexOfLabel(out, "TOTAL:")
                 IN /\ out[t + 2].text = <<Str("PAYMENT INFORMATION")>>
                    /\ out[t + 2].y = out[t].y - 50 * U
           /\ (SameButNotes /\ NoNotes(prevArg.notes)) => out = prevOut

\* the simple variant rendered a record with empty notes after the same
\* record with absent notes, or the other way round
C14_Witness ==
    /\ settled = "fulfilled" /\ variant = "simple"
    /\ SameButNotes
    /\ NoNotes(arg.notes) /\ NoNotes(prevArg.notes) /\ arg.notes # prevArg.notes
    /\ last.outcome = "ok"

\* number of primitives of a complete page of the rich variant
CompletePageLength(record) ==
    LET N == Len(record.lineItems)
    IN 39 + NumLines(record.companyAddress) + NumLines(record.clientAddress)
          + 4 * N + (N + 1) \div 2

Occurrences(seq, x) == Cardinality({i \in 1..Len(seq) : seq[i] = x})

\* C15: a call in which font embedding or serialization fails is rejected
\* with that same error, returns no Blob and has made the failing emitter call
\* once, as its last emitter call; a call that returns has made every emitter
\* call and returns a Blob of type application/pdf holding one page with the
\* complete primitive sequence, from the header band to the payment-terms
\* footer line.
C15_AllOrNothing ==
    last.outcome # "none" =>
        /\ last.settled = settled
        /\ last.outcome \in {"embedFont", "save"} =>
              /\ last.settled = "rejected"
              /\ last.error = Some(last.outcome)
              /\ last.blob = Undefined
              /\ last.emitterCalls[Len(last.emitterCalls)] = last.outcome
              /\ Occurrences(last.emitterCalls, last.outcome) = 1
        /\ last.settled = "fulfilled" =>
              /\ last.outcome = "ok" /\ last.error = Undefined
              /\ last.emitterCalls = <<"create", "addPage", "embedFont", "embedFont", "save">>
              /\ IsDefined(last.blob)
              /\ Val(last.blob).type = "application/pdf"
              /\ Len(Val(last.blob).pages) = 1
              /\ Val(last.blob).pages[1] = out
              /\ Len(out) = CompletePageLength(arg)
              /\ out[1].kind = "rect" /\ out[1].y = pageHeight - 80 * U
              /\ out[Len(out)].text = <<Str("Payment terms: Due within 30 days of issue")>>

\* serialization failed in a call made after a call that returned a Blob
C15_Witness ==
    /\ last.outcome = "save" /\ settled = "rejected"
    /\ last.blob = Undefined
    /\ calls = 2 /\ out # << >>

\* the page a call draws when it runs alone on the object it was given
AlonePage(c) == DrawCalls(WithTotal(given[rec[c]]), today, tz)

\* C16 (as stated): whatever the interleaving of the calls in flight, a step
\* of one call changes no InvoiceData object that another call was given (a
\* call writes only its own document), and the Blob a call returns holds the
\* page the call draws when it runs alone.
C16_CallsDoNotInterfere ==
    /\ [][\A c \in CallIds : pc'[c] # pc[c] =>
             \A d \in CallIds \ {c} : heap'[rec[d]] = heap[rec[d]]]_vars
    /\ [](\A c \in CallIds : pc[c] = "fulfilled" => Val(blob[c]).pages = <<AlonePage(c)>>)

\* C17 (as stated): after any sequence of POST /api/invoices and
\* PUT /api/invoices/:id requests, every stored invoice has at least one line
\* item, and every line item of it has a quantity of at least 1 and a unit
\* price that is not negative.
C17_StoredRecordsMeetRendererContract ==
    \A id \in DOMAIN store :
        IsDefined(store[id]) =>
            LET items == Val(store[id]).lineItems
            IN /\ Len(items) >= 1
               /\ \A i \in 1..Len(items) : items[i].quantity >= 1 /\ items[i].unitPrice >= 0

\* the lines joined again by line breaks
RECURSIVE JoinLines(_)
JoinLines(lines) ==
    IF Len(lines) = 0 THEN << >>
    ELSE IF Len(lines) = 1 THEN lines[1]
    ELSE lines[1] \o <<NL>> \o JoinLines(Tail(lines))

\* position of the first "Email: " text at or after position from
EmailFrom(prims, from) ==
    CHOOSE e \in from..Len(prims) :
        /\ IsText(prims[e]) /\ Head(prims[e].text) = Str("Email: ")
        /\ \A j \in from..(e - 1) : ~(IsText(prims[j]) /\ Head(prims[j].text) = Str("Email: "))

\* the lines drawn from position from up to the next "Email: " text
LinesDrawn(prims, from) ==
    [k \in 1..(EmailFrom(prims, from) - from) |-> prims[from + k - 1].text[1].chars]

\* the drawn lines are the text cut at its line breaks and nowhere else
IsSplitOf(lines, text) ==
    /\ Len(lines) >= 1
    /\ Len(lines) = NumLines(text)
    /\ \A k \in 1..Len(lines) : \A i \in 1..Len(lines[k]) : lines[k][i] # NL
    /\ JoinLines(lines) = text
    /\ text = << >> => lines = << << >> >>

\* C18: in every completed render, of either variant, the lines drawn for
\* the company address and for the client address are the address text cut
\* at its line breaks: k line breaks give k + 1 lines in their order, the
\* empty text gives one empty line, and no line is wrapped or merged.
C18_SplitNeverYieldsZeroLines ==
    settled = "fulfilled" =>
        /\ IsSplitOf(LinesDrawn(out, IndexOfLabel(out, "INVOICE") + 2), arg.companyAddress)
        /\ IsSplitOf(LinesDrawn(out, IndexOfLabel(out, "BILL TO:") + 2), arg.clientAddress)

\* the rich variant rendered an empty company address as one empty line, or
\* an address with an empty line inside and a line break at its end
C18_Witness ==
    /\ settled = "fulfilled" /\ variant = "rich"
    /\ \/ /\ arg.companyAddress = << >>
          /\ LinesDrawn(out, 4) = << << >> >>
       \/ /\ arg.companyAddress = <<"a", NL, NL, "b", NL>>
          /\ LinesDrawn(out, 4) = << <<"a">>, << >>, <<"b">>, << >> >>

\* C19: in every completed render of N line items, row i (from 0) has
\* exactly four texts, at y = tableTop - 45 - 25 i, in the order description,
\* quantity, unit price, amount of item i, rows are emitted top down, and the
\* subtotal, tax and grand-total lines are at tableTop - 50 - 25 N,
\* tableTop - 70 - 25 N and tableTop - 90 - 25 N: the positions are fixed by N.
C19_TablePositionsDependOnCountOnly ==
    (settled = "fulfilled" /\ variant = "rich") =>
        LET N == Len(arg.lineItems)
            top == pageHeight - 280 * U
            s == IndexOfLabel(out, "Subtotal:")
            firstCell == IndexOfLabel(out, "Amount") + 1
        IN /\ \A i \in 0..(N - 1) :
                 LET cells == RowCells(out, i)
                 IN /\ Len(cells) = 4
                    /\ \A c \in 1..4 : cells[c].y = top - 45 * U - 25 * U * i
                    /\ cells[1].text = <<Str(arg.lineItems[i + 1].description)>>
                    /\ cells[2].text = <<[int |-> arg.lineItems[i + 1].quantity]>>
           /\ \A j \in firstCell..(s - 1), k \in firstCell..(s - 1) :
                 (j < k /\ IsText(out[j]) /\ IsText(out[k])) => out[j].y >= out[k].y
           /\ \A j \in firstCell..(s - 1) :
                 IsText(out[j]) => \E i \in 0..(N - 1) : out[j].y = top - 45 * U - 25 * U * i
           /\ out[s].y = top - 50 * U - 25 * U * N /\ out[s + 1].y = out[s].y
           /\ out[s + 2].y = top - 70 * U - 25 * U * N /\ out[s + 3].y = out[s + 2].y
           /\ out[s + 5].y = top - 90 * U - 25 * U * N /\ out[s + 6].y = out[s + 5].y
           /\ out[s + 5].text = <<Str("TOTAL:")>>

\* a render of three line items: the subtotal line is at tableTop - 125
C19_Witness ==
    /\ settled = "fulfilled" /\ variant = "rich"
    /\ Len(arg.lineItems) = 3
    /\ LabelY(out, "Subtotal:") = pageHeight - 280 * U - 125 * U
    /\ RowCells(out, 2)[4].y = pageHeight - 280 * U - 95 * U

\* C20 (as stated): in every completed render, whatever the number of
\* address lines, every text of the company block (address lines, email,
\* phone) is above the header divider at y = height - 150, and every text of
\* the client block (address lines, email) is above the top of the table
\* header rectangle at y = height - 280.
C20_StackedBlocksAboveNextRegion ==
    (settled = "fulfilled" /\ variant = "rich") =>
        LET c == IndexOfLabel(out, "INVOICE") + 2
            phone == EmailFrom(out, c) + 1
            b == IndexOfLabel(out, "BILL TO:") + 2
            email == EmailFrom(out, b)
            header == out[IndexOfLabel(out, "Description") - 1]
        IN /\ FirstLine(out).y = pageHeight - 150 * U
           /\ header.kind = "rect" /\ header.y + header.height = pageHeight - 280 * U
           /\ \A i \in c..phone : out[i].y > FirstLine(out).y
           /\ \A i \in b..email : out[i].y > header.y + header.height

\* C21 (as stated): on the invoices list page, once no handleDelete call is
\* in flight, every invoice whose DELETE request succeeded is absent from the
\* invoices state and every invoice whose DELETE request failed is in it,
\* whatever the interleaving of the calls was.
C21_DeletedAbsentFailedShown ==
    (\A c \in DeleteIds : deletes[c].pc # "awaiting") =>
        \A c \in DeleteIds :
            /\ deletes[c].pc = "succeeded" => Val(deletes[c].id) \notin Shown(invoices)
            /\ deletes[c].pc = "failed" => Val(deletes[c].id) \in Shown(invoices)

\* C22 (as stated): connectToDatabase connects at most once per process.
\* Every mongoose.connect call but the first comes after an attempt that
\* failed; isConnected, once true, stays true, and no handler that finds it
\* true connects; an attempt that failed has left isConnected false and made
\* its handler answer 500.
C22_ConnectsAtMostOnce ==
    /\ [](\A j \in 2..Len(connects) : \E i \in 1..(j - 1) : connects[i].outcome = "failed")
    /\ [][/\ \A module \in RouteModules : isConnected[module] => isConnected'[module]
          /\ Len(connects') > Len(connects) =>
                ~isConnected[connects'[Len(connects')].module]]_vars
    /\ [](\A h \in HandlerIds :
            (handlers[h].pc = "answered" /\ connects[ConnectOf(h)].outcome = "failed") =>
                /\ handlers[h].status = Some(500)
                /\ \/ ~isConnected[handlers[h].module]
                   \/ \E i \in 1..Len(connects) :
                         /\ connects[i].module = handlers[h].module
                         /\ connects[i].outcome = "connected")

\* a step of the edit page that made the line-item list shorter without a
\* fetchInvoice completion
ListShrank == Len(formLineItems') < Len(formLineItems) /\ loads' = loads

\* C23 (as stated): on the edit page the line-item list always holds at
\* least one item, after the initial state and after any fetchInvoice
\* completion, addLineItem, removeLineItem and updateLineItem; removeLineItem
\* leaves a one-item list as it is and otherwise removes exactly the item at
\* its index, keeping the others in order.
C23_AtLeastOneLineItem ==
    /\ [](Len(formLineItems) >= 1)
    /\ [][ListShrank =>
            /\ Len(formLineItems) > 1
            /\ \E index \in 1..Len(formLineItems) :
                  /\ Len(formLineItems') = Len(formLineItems) - 1
                  /\ \A i \in 1..Len(formLineItems') :
                        formLineItems'[i] = formLineItems[IF i < index THEN i ELSE i + 1]]_vars

\* the line_items rows of an invoice row
ItemsOf(id) == {row \in lineItemsTable : row.invoiceId = id}

\* the latest saveInvoice call was given valid data and its transaction
\* threw at one of the two inserts
InsertFailed ==
    /\ SafeParseOk(Val(saved).input)
    /\ Val(saved).outcome \in {"invoiceInsertFails", "noIdReturned", "lineItemsInsertFails"}

\* C24: saveInvoice always returns a result; success:true comes with the id
\* of a committed invoice row that has one committed line-item row per item
\* of the input; when validation fails, or when an insert fails, the tables
\* are as they were and the result is success:false with a message; no
\* invoice row is ever without its line-item rows.
C24_SaveInvoiceAtomic ==
    /\ [](\A row \in invoicesTable : ItemsOf(row.id) # {})
    /\ [](saved # Undefined /\ Val(saved).returned.success =>
            /\ IsDefined(Val(saved).returned.invoiceId)
            /\ \E row \in invoicesTable : row.id = Val(Val(saved).returned.invoiceId)
            /\ Cardinality(ItemsOf(Val(Val(saved).returned.invoiceId))) =
                  Len(Val(Val(saved).input.lineItems)))
    /\ [][saves' = saves + 1 =>
            /\ saved' # Undefined
            /\ Val(saved').returned.success \in BOOLEAN
            /\ (~SafeParseOk(Val(saved').input) \/ InsertFailed') =>
                  /\ invoicesTable' = invoicesTable
                  /\ lineItemsTable' = lineItemsTable
                  /\ ~Val(saved').returned.success
                  /\ IsDefined(Val(saved').returned.message)]_vars

\* an invoice was committed, and then a call failed at the line-item insert
C24_Witness ==
    /\ saved # Undefined
    /\ Val(saved).outcome = "lineItemsInsertFails"
    /\ SafeParseOk(Val(saved).input)
    /\ invoicesTable # {}

\* C25 (as stated): GET, PUT and DELETE on /api/invoices/:id answer 400 to
\* an id that is no ObjectId, whatever the state of the database and the
\* body, and leave the collection as it is; they answer 404 to a valid id with
\* no document, leaving the collection as it is; and they answer 200 only
\* when the id has a document.
C25_InvalidIdAnswered400 ==
    [][\A id \in IdStrings, dbUp \in BOOLEAN :
          (GET(id, dbUp) \/ DELETE(id, dbUp) \/ \E body \in Bodies : PUT(id, body, dbUp)) =>
              /\ id \notin ObjectIds => (response' = Respond(400) /\ store' = store)
              /\ (id \in ObjectIds /\ store[id] = Undefined) =>
                    (response' = Respond(404) /\ store' = store)
              /\ response' = Respond(200) => (id \in ObjectIds /\ store[id] # Undefined)]_vars

\* the primitives drawn before the footer, and those of the table, totals
\* and payment-information blocks (source lines 386-613)
BodyPrims == SelectSeq(out, LAMBDA p : p.at < 615)
TableToPaymentPrims == SelectSeq(out, LAMBDA p : p.at >= 386 /\ p.at < 615)

\* the lowest point of a primitive
LowestY(p) == IF p.kind = "line" /\ p.y2 < p.y THEN p.y2 ELSE p.y

\* the texts of the body that no other text of the body is below
LowestBodyTexts ==
    {i \in 1..Len(BodyPrims) :
        /\ IsText(BodyPrims[i])
        /\ \A j \in 1..Len(BodyPrims) : IsText(BodyPrims[j]) => BodyPrims[i].y <= BodyPrims[j].y}

\* C26: in a completed render of a record with N line items the lowest body
\* text is the account-number line, at y = height - 490 - 25 N; every
\* primitive of the table, totals and payment-information blocks is above
\* the footer divider (y = 80) exactly when N <= 10; and no primitive drawn
\* before the footer has a negative y exactly when N <= 14.
C26_PageFit ==
    settled = "fulfilled" =>
        LET N == Len(arg.lineItems)
        IN /\ \A i \in LowestBodyTexts :
                 /\ BodyPrims[i].at \in {599, 606}
                 /\ BodyPrims[i].y = pageHeight - 490 * U - 25 * U * N
           /\ LowestBodyTexts # {}
           /\ (\A i \in 1..Len(TableToPaymentPrims) : LowestY(TableToPaymentPrims[i]) > 80 * U)
                 <=> N <= 10
           /\ (\A i \in 1..Len(BodyPrims) : LowestY(BodyPrims[i]) >= 0) <=> N <= 14

\* a render of fifteen rows, whose account-number line is below the page
C26_Witness ==
    /\ settled = "fulfilled"
    /\ Len(arg.lineItems) = 15
    /\ \E i \in 1..Len(out) : out[i].at = 606 /\ out[i].y < 0

\* C27 (as stated): after any sequence of creates and updates through the
\* Express routes and saveInvoice, every stored line item has amount =
\* quantity * unitPrice, in the collection and in the line_items table.
C27_AmountIsQuantityTimesUnitPrice ==
    /\ \A id \in ObjectIds :
          store[id] # Undefined =>
              \A i \in 1..Len(Val(store[id]).lineItems) :
                  LET item == Val(store[id]).lineItems[i]
                  IN item.amount = item.quantity * item.unitPrice
    /\ \A row \in lineItemsTable : row.amount = row.quantity * row.unitPrice

Settled == {"fulfilled", "rejected"}

\* C28: every fetchInvoices and fetchInvoice call sets its page's loading
\* flag to true and, once the request has succeeded or failed, sets it to
\* false, and every call in flight comes to that point; a failed call leaves
\* the invoices, respectively the form values and line items, as they were and
\* raises the error toast.
C28_LoadingAlwaysClears ==
    /\ \A f \in FetchIds : [](fetches[f] = "awaiting" => <>(fetches[f] \in Settled))
    /\ \A l \in LoadIds : [](loads[l] = "awaiting" => <>(loads[l] \in Settled))
    /\ [][\A f \in FetchIds :
            /\ (fetches[f] = "ready" /\ fetches'[f] = "awaiting") => loading'
            /\ (fetches[f] = "awaiting" /\ fetches'[f] \in Settled) => ~loading'
            /\ (fetches[f] = "awaiting" /\ fetches'[f] = "rejected") =>
                  (invoices' = invoices /\ toasts' = Append(toasts, ErrorToast))]_vars
    /\ [][\A l \in LoadIds :
            /\ (loads[l] = "ready" /\ loads'[l] = "awaiting") => isLoading'
            /\ (loads[l] = "awaiting" /\ loads'[l] \in Settled) => ~isLoading'
            /\ (loads[l] = "awaiting" /\ loads'[l] = "rejected") =>
                  /\ form' = form /\ formLineItems' = formLineItems
                  /\ toasts' = Append(toasts, ErrorToast)]_vars

\* both pages hold data of an earlier fetch, a later fetch of each failed,
\* and both loading flags are cleared
C28_Witness ==
    /\ \E f \in FetchIds : fetches[f] = "rejected"
    /\ \E l \in LoadIds : loads[l] = "rejected"
    /\ invoices # << >> /\ form # Undefined
    /\ ~loading /\ ~isLoading

\* the draw calls of the content both layouts have: company block, invoice
\* number and dates, header divider, client block, table header labels and
\* line-item rows, by source line
SharedCalls ==
    [rich |-> {247, 257, 266, 274, 282, 291, 299, 339, 346, 354, 364, 373,
               398, 405, 412, 419, 433, 442, 449, 456, 463},
     simple |-> {140, 150, 159, 167, 175, 184, 192, 200, 207, 215, 225, 234,
                 257, 264, 271, 278, 294, 303, 310, 317, 324}]

\* what a primitive draws and where, colours and fonts left out
Placement(p) ==
    IF p.kind = "text" THEN <<"text", p.text, p.x, p.y, p.size>>
    ELSE IF p.kind = "rect" THEN <<"rect", p.x, p.y, p.width, p.height>>
    ELSE <<"line", p.x, p.y, p.x2, p.y2>>

\* the shared content of a page, in drawing order
SharedContent(prims, layout) ==
    LET shared == SelectSeq(prims, LAMBDA p : p.at \in SharedCalls[layout])
    IN [i \in 1..Len(shared) |-> Placement(shared[i])]

\* the two latest calls completed, one per layout, on records that differ at
\* most in totalAmount and notes
RenderedByBoth ==
    /\ BothFulfilled /\ variant # prevVariant
    /\ [arg EXCEPT !.totalAmount = prevArg.totalAmount, !.notes = prevArg.notes] = prevArg

\* C29: the simple and the rich layout of the same record draw the company
\* block, the invoice number, date and due-date lines, the header divider,
\* the client block, the table header labels and every line-item row (band
\* and four cells) with the same texts at the same coordinates, in the same
\* relative order.
C29_VariantsAgreeOnSharedContent ==
    RenderedByBoth => SharedContent(out, variant) = SharedContent(prevOut, prevVariant)

\* both layouts rendered a record with two rows and a multi-line address
C29_Witness ==
    /\ RenderedByBoth
    /\ Len(arg.lineItems) >= 2
    /\ NumLines(arg.companyAddress) >= 2
    /\ Len(SharedContent(out, variant)) >= 20

====
